---- MODULE Spec2Model ----
(***************************************************************************)
(* tadpoles: derivation of a Model's columns from a dataset.               *)
(*                                                                         *)
(* The state machine is transform() of src/tadpoles/transform.py, run      *)
(* against the Field list of a Model (src/tadpoles/field.py), one step per *)
(* iteration of its loop.  A dataset is its ordered column list and, for   *)
(* each column, where its values come from; an expression is its root      *)
(* column names (what Expr.meta.root_names() returns).                     *)
(***************************************************************************)
EXTENDS Integers, Sequences, FiniteSets, TLC

VARIABLES
    fields,          \* the Model's Field objects, in Model field order
    pc,              \* where transform() is: idle, loop, literals, returned, raised
    ldf,             \* the dataset transform() is working on
    lf_schema,       \* column names of lf_schema (transform.py:104)
    n,               \* the loop counter of transform.py:105
    max_iterations,  \* the argument of the running call
    exprs,           \* the batch get_exprs returned in the latest iteration
    examined,        \* every get_expr call of the latest iteration, with the schema it was given
    before,          \* lf_schema as it stood when the latest iteration began
    input,           \* the column names of the dataset the running call was given
    applied,         \* number of batches applied to the dataset by the running call
    failed,          \* the Field names the RuntimeError names
    running,         \* the locals of each of two transform() calls running at once
    earlier,         \* how the call before the running one ended, "none" for the first
    declared,        \* the class statements of the program, in order
    classes,         \* what the metaclass made of the class statements executed so far
    how,             \* the mode normalize() was called with
    expand_columns,  \* the columns argument of normalize(): the names that restrict it
    schema,          \* the schema normalize() collected last
    structs,         \* the struct columns get_expandable returned last
    lists,           \* the list columns get_expandable returned last
    passes,          \* the expansions normalize() has applied, in order
    objects,         \* the Model instances there are: of each its class and its lf
    returned         \* what the last __add__ or append of a Model returned

vars == <<fields, pc, ldf, lf_schema, n, max_iterations, exprs, examined,
          before, input, applied, failed, running, earlier, declared, classes,
          how, expand_columns, schema, structs, lists, passes,
          objects, returned>>

\* the Model instances and what a call on one returned
heap == <<objects, returned>>

\* what the steps of a single call leave alone
aux == <<running, earlier, declared, classes,
         how, expand_columns, schema, structs, lists, passes, heap>>

\* the locals of normalize()
shape == <<how, expand_columns, schema, structs, lists, passes>>

----------------------------------------------------------------------------
(* Bounds and program constants *)

ITER_MAX == 10

\* largest explicit max_iterations argument tried (the default ITER_MAX besides)
MaxIterations == 2

\* most candidate expressions of one Field in the two-field family
MaxCands == 2

NONE == "<None>"
Unknown == "Unknown"

----------------------------------------------------------------------------
(* Column names.  Python compares str by code point, character by character *)

Chars ==
    [nm \in {"a", "b", "c", "ab", "B", "x", "y",
             "d", "e", "f", "g", "h", "i", "j", "k", "l", "m", "o", "p",
             "", "_p", "collect", "__field__", "__field__x", "ax", "bx",
             "__standin__", "df", ".", "a.b",
             "explode", "unnest", "unnest-explode", "unnest-first",
             "explode-first", "explode-unnest", "first"} |->
        CASE nm = "a" -> <<97>>   [] nm = "b" -> <<98>>   [] nm = "c" -> <<99>>
          [] nm = "ab" -> <<97, 98>>  [] nm = "B" -> <<66>>
          [] nm = "x" -> <<120>>  [] nm = "y" -> <<121>>
          [] nm = "d" -> <<100>>  [] nm = "e" -> <<101>>  [] nm = "f" -> <<102>>
          [] nm = "g" -> <<103>>  [] nm = "h" -> <<104>>  [] nm = "i" -> <<105>>
          [] nm = "j" -> <<106>>  [] nm = "k" -> <<107>>  [] nm = "l" -> <<108>>
          [] nm = "m" -> <<109>>  [] nm = "o" -> <<111>>  [] nm = "p" -> <<112>>
          [] nm = "" -> <<>>      [] nm = "_p" -> <<95, 112>>
          [] nm = "collect" -> <<99, 111, 108, 108, 101, 99, 116>>
          [] nm = "__field__" -> <<95, 95, 102, 105, 101, 108, 100, 95, 95>>
          [] nm = "__field__x" -> <<95, 95, 102, 105, 101, 108, 100, 95, 95, 120>>
          [] nm = "ax" -> <<97, 120>>  [] nm = "bx" -> <<98, 120>>
          [] nm = "__standin__" -> <<95, 95, 115, 116, 97, 110, 100, 105, 110, 95, 95>>
          [] nm = "df" -> <<100, 102>>
          [] nm = "." -> <<46>>   [] nm = "a.b" -> <<97, 46, 98>>
          [] nm = "explode" -> <<101, 120, 112, 108, 111, 100, 101>>
          [] nm = "unnest" -> <<117, 110, 110, 101, 115, 116>>
          [] nm = "first" -> <<102, 105, 114, 115, 116>>
          [] nm = "unnest-explode" ->
                 <<117, 110, 110, 101, 115, 116, 45, 101, 120, 112, 108, 111, 100, 101>>
          [] nm = "explode-unnest" ->
                 <<101, 120, 112, 108, 111, 100, 101, 45, 117, 110, 110, 101, 115, 116>>
          [] nm = "unnest-first" ->
                 <<117, 110, 110, 101, 115, 116, 45, 102, 105, 114, 115, 116>>
          [] nm = "explode-first" ->
                 <<101, 120, 112, 108, 111, 100, 101, 45, 102, 105, 114, 115, 116>>]

RECURSIVE SeqLess(_, _)
SeqLess(s, t) ==
    IF s = <<>> THEN t # <<>>
    ELSE IF t = <<>> THEN FALSE
    ELSE IF Head(s) # Head(t) THEN Head(s) < Head(t)
    ELSE SeqLess(Tail(s), Tail(t))

\* str.__lt__
StrLess(s, t) == SeqLess(Chars[s], Chars[t])

RECURSIVE Insert(_, _)
Insert(nm, sorted_) ==
    IF sorted_ = <<>> THEN <<nm>>
    ELSE IF StrLess(nm, Head(sorted_)) THEN <<nm>> \o sorted_
    ELSE <<Head(sorted_)>> \o Insert(nm, Tail(sorted_))

SortedNoOrder(names) == names

\* sorted(list of str): stable, ascending
RECURSIVE Sorted(_)
Sorted(names) ==
    IF names = <<>> THEN <<>>
    ELSE Insert(names[Len(names)], Sorted(SubSeq(names, 1, Len(names) - 1)))

Range(s) == {s[i] : i \in DOMAIN s}

----------------------------------------------------------------------------
(* Field (field.py) *)

\* an expression, known by its root column names
Expr(roots) == [roots |-> roots]

\* Field.__init__ and prepare(): a named Field with its bound expressions
Field(name, exprs_, dtype, default) ==
    [name |-> name, exprs |-> exprs_, dtype |-> dtype, default |-> default,
     derived |-> FALSE, prepared |-> TRUE]

\* where a column's values come from
SourceCol == [kind |-> "source", idx |-> 0, round |-> 0, value |-> NONE, dtype |-> Unknown]
ExprCol(col, k, r) == [kind |-> "expr", idx |-> k, round |-> r, value |-> NONE, dtype |-> col.dtype]

LiteralUncast(col) == [kind |-> "lit", idx |-> 0, round |-> 0, value |-> col.default, dtype |-> Unknown]

\* Field.literal: pl.lit(self.default).cast(self.dtype)
Literal(col) == [kind |-> "lit", idx |-> 0, round |-> 0, value |-> col.default, dtype |-> col.dtype]

SatisfiedAny(expr, names) == \E source \in expr.roots : source \in names

\* the test of get_expr: all(source in current_schema.names() for source in roots)
Satisfied(expr, names) == \A source \in expr.roots : source \in names

RECURSIVE ScanFrom(_, _, _)
ScanFrom(col, names, k) ==
    IF k > Len(col.exprs) THEN 0
    ELSE IF Satisfied(col.exprs[k], names) THEN k
    ELSE ScanFrom(col, names, k + 1)

RECURSIVE ScanBack(_, _, _)
ScanBack(col, names, k) ==
    IF k < 1 THEN 0
    ELSE IF Satisfied(col.exprs[k], names) THEN k
    ELSE ScanBack(col, names, k - 1)

GetExprLast(col, names) == ScanBack(col, names, Len(col.exprs))

\* Field.get_expr: index of the first expression whose roots are all in the
\* schema, 0 when there is none (the empty dict)
GetExpr(col, names) == ScanFrom(col, names, 1)

----------------------------------------------------------------------------
(* transform.py *)

RECURSIVE ExamineThreaded(_, _, _, _)
ExamineThreaded(columns, names, i, r) ==
    IF i > Len(columns) THEN <<>>
    ELSE IF columns[i].derived THEN ExamineThreaded(columns, names, i + 1, r)
    ELSE LET k == GetExpr(columns[i], names)
             rec == [name |-> columns[i].name, idx |-> k, saw |-> names,
                     roots |-> IF k = 0 THEN {} ELSE columns[i].exprs[k].roots,
                     col |-> IF k = 0 THEN SourceCol ELSE ExprCol(columns[i], k, r)]
         IN  <<rec>> \o ExamineThreaded(columns,
                            IF k = 0 THEN names ELSE names \cup {columns[i].name}, i + 1, r)

\* the get_expr calls of one get_exprs(columns, current_schema), in order:
\* one for every Field that is not derived, each given current_schema
RECURSIVE Examine(_, _, _, _)
Examine(columns, names, i, r) ==
    IF i > Len(columns) THEN <<>>
    ELSE IF columns[i].derived THEN Examine(columns, names, i + 1, r)
    ELSE LET k == GetExpr(columns[i], names)
             rec == [name |-> columns[i].name, idx |-> k, saw |-> names,
                     roots |-> IF k = 0 THEN {} ELSE columns[i].exprs[k].roots,
                     col |-> IF k = 0 THEN SourceCol ELSE ExprCol(columns[i], k, r)]
         IN  <<rec>> \o Examine(columns, names, i + 1, r)

Selected(rec) == rec.idx # 0

\* get_exprs: the dict of the expressions get_expr returned, in insertion order
get_exprs(calls) == SelectSeq(calls, Selected)

MarkNone(columns, batch) == columns

\* the Fields after get_exprs: get_expr sets derived on the Fields it selects for
MarkDerived(columns, batch) ==
    [i \in DOMAIN columns |->
        IF \E j \in DOMAIN batch : batch[j].name = columns[i].name
        THEN [columns[i] EXCEPT !.derived = TRUE]
        ELSE columns[i]]

\* LazyFrame.with_columns(**named): a named column replaces the column of that
\* name in place, a new name is appended; all are evaluated on the same frame
RECURSIVE with_columns(_, _)
with_columns(frame, named) ==
    IF named = <<>> THEN frame
    ELSE LET e == Head(named)
             added == IF e.name \in Range(frame.names)
                      THEN frame.names ELSE Append(frame.names, e.name)
         IN  with_columns([names |-> added,
                           col |-> [c \in Range(added) |->
                                       IF c = e.name THEN e.col ELSE frame.col[c]]],
                          Tail(named))

\* LazyFrame.select(names)
select(frame, names) ==
    [names |-> names, col |-> [c \in Range(names) |-> frame.col[c]]]

Underived(columns) == SelectSeq(columns, LAMBDA col : ~col.derived)

NamesOf(columns) == [i \in DOMAIN columns |-> columns[i].name]

\* the dataset a call is given: its columns, all source columns
Frame(names) == [names |-> names, col |-> [c \in Range(names) |-> SourceCol]]

EmptyFrame == Frame(<<>>)

----------------------------------------------------------------------------
(* The Models and datasets tried.  A Model's Fields have distinct names     *)
(* (ModelMeta keys them by name, model.py:20-36).                           *)

Int64 == "Int64"
String == "String"

DtypeOf(name) == IF name \in {"a", "ab"} THEN Int64 ELSE IF name = "b" THEN String ELSE Unknown
DefaultOf(name) == IF name \in {"b", "B"} THEN "none" ELSE IF name = "c" THEN "0" ELSE NONE

\* lists of 1..k expressions over the given root sets, none listed twice
RECURSIVE ExprLists(_, _)
ExprLists(rootSets, k) ==
    IF k = 0 THEN {<<>>}
    ELSE LET shorter == ExprLists(rootSets, k - 1)
         IN  shorter \cup
             {Append(l, Expr(r)) : <<l, r>> \in
                 {p \in shorter \X rootSets :
                     Len(p[1]) = k - 1 /\ \A i \in DOMAIN p[1] : p[1][i].roots # p[2]}}

Candidates(rootSets, k) == ExprLists(rootSets, k) \ {<<>>}

AtMostOne(names) == {{}} \cup {{c} : c \in names}
AtMostTwo(names) == {s \in SUBSET names : Cardinality(s) <= 2}

\* one or two Fields a, b, each with up to MaxCands expressions of at most one root
TwoFieldModels ==
    LET cands == Candidates(AtMostOne({"a", "b", "x"}), MaxCands)
        F(nm, es) == Field(nm, es, DtypeOf(nm), DefaultOf(nm))
    IN  {<<F(nm, es)>> : <<nm, es>> \in {"a", "b"} \X cands}
        \cup {<<F(p[1], ea), F(p[2], eb)>> :
                <<p, ea, eb>> \in {<<"a", "b">>, <<"b", "a">>} \X cands \X cands}

\* three Fields a, b, c in every order, each with one expression of at most one root
ThreeFieldModels ==
    LET roots == AtMostOne({"a", "b", "c", "x"})
        F(nm, r) == Field(nm, <<Expr(r)>>, DtypeOf(nm), DefaultOf(nm))
        orders == {p \in {"a", "b", "c"} \X {"a", "b", "c"} \X {"a", "b", "c"} :
                      Cardinality({p[1], p[2], p[3]}) = 3}
    IN  {<<F(p[1], r[1]), F(p[2], r[2]), F(p[3], r[3])>> :
            <<p, r>> \in orders \X (roots \X roots \X roots)}

\* two Fields ab, B in both orders, each with one expression of up to two roots
TwoRootModels ==
    LET roots == AtMostTwo({"ab", "B", "x", "y"})
        F(nm, r) == Field(nm, <<Expr(r)>>, DtypeOf(nm), DefaultOf(nm))
    IN  {<<F(p[1], r[1]), F(p[2], r[2])>> :
            <<p, r>> \in {<<"ab", "B">>, <<"B", "ab">>} \X (roots \X roots)}

ChainNames == <<"d", "e", "f", "g", "h", "i", "j", "k", "l", "m", "o", "p">>

\* d from the source column x, e from d, f from e, ... : a chain of len Fields
Chain(len) ==
    [i \in 1..len |->
        Field(ChainNames[i], <<Expr({IF i = 1 THEN "x" ELSE ChainNames[i - 1]})>>,
              Unknown, NONE)]

Reverse(s) == [i \in DOMAIN s |-> s[Len(s) + 1 - i]]

\* chains as deep as the default iteration cap, one less and up to two more
ChainModels ==
    LET chains == {Chain(len) : len \in (ITER_MAX - 1)..(ITER_MAX + 2)}
    IN  chains \cup {Reverse(c) : c \in chains}

\* a from the source column x, b from a, and c from a column that is in no
\* dataset given with it, with the default "none"
Example ==
    <<Field("a", <<Expr({"x"})>>, Unknown, NONE),
      Field("b", <<Expr({"a"})>>, Unknown, NONE),
      Field("c", <<Expr({"c"})>>, Unknown, "none")>>

Models ==
    TwoFieldModels \cup ThreeFieldModels \cup TwoRootModels \cup ChainModels \cup {Example}

\* the columns a dataset may have, in dataset order: a is also a Field name,
\* x and y are not
InputColumns == <<"a", "x", "y">>

RootsOf(columns) ==
    UNION {UNION {columns[i].exprs[e].roots : e \in DOMAIN columns[i].exprs} :
              i \in DOMAIN columns}

\* the datasets a call on these Fields is given: any of the columns that some
\* expression reads, with or without the column x (a column no expression
\* reads is one more column like x)
Inputs(columns) ==
    {SelectSeq(InputColumns, LAMBDA c : c \in s) :
        s \in SUBSET (Range(InputColumns) \cap (RootsOf(columns) \cup {"x"}))}

Caps == 0..MaxIterations \cup {ITER_MAX}

----------------------------------------------------------------------------
(* The state machine *)

\* the two calls of transform() that may run at once
Calls == {1, 2}

\* normalize() has not been called
Unshaped ==
    /\ how = NONE
    /\ expand_columns = <<>>
    /\ schema = <<>>
    /\ structs = <<>>
    /\ lists = <<>>
    /\ passes = <<>>

\* no Model has been instantiated
Unallocated ==
    /\ objects = <<>>
    /\ returned = [kind |-> "None"]

\* a call that has not started
IdleCall ==
    [pc |-> "idle", ldf |-> EmptyFrame, lf_schema |-> {}, n |-> 0,
     max_iterations |-> ITER_MAX, exprs |-> <<>>, i |-> 0, input |-> {}]

Init ==
    /\ fields \in Models
    /\ running = [c \in Calls |-> IdleCall]
    /\ earlier = "none"
    /\ declared = <<>>
    /\ classes = <<>>
    /\ pc = "idle"
    /\ ldf = EmptyFrame
    /\ lf_schema = {}
    /\ n = 0
    /\ max_iterations = ITER_MAX
    /\ exprs = <<>>
    /\ examined = <<>>
    /\ before = {}
    /\ input = {}
    /\ applied = 0
    /\ failed = <<>>
    /\ Unshaped
    /\ Unallocated

KeepDerived(columns) == columns

\* transform.py:103: [setattr(col, 'derived', False) for col in fields]
ResetDerived(columns) ==
    [i \in DOMAIN columns |-> [columns[i] EXCEPT !.derived = FALSE]]

\* transform.py:102-104: a call starts: every derived flag is cleared, the
\* schema of the dataset is collected
Transform(data, cap) ==
    /\ pc = "idle"
    /\ fields' = ResetDerived(fields)
    /\ ldf' = Frame(data)
    /\ lf_schema' = Range(data)
    /\ input' = Range(data)
    /\ max_iterations' = cap
    /\ n' = 0
    /\ exprs' = <<>>
    /\ examined' = <<>>
    /\ before' = Range(data)
    /\ applied' = 0
    /\ failed' = <<>>
    /\ pc' = "loop"
    /\ UNCHANGED aux

RaiseAtCap(i, cap) == i >= cap

ExceededLate(i, cap) == i > cap + 1

\* transform.py:106: if n > max_iterations
Exceeded(i, cap) == i > cap

\* transform.py:106-112: the RuntimeError, naming the Fields not derived
Raise ==
    /\ pc = "loop"
    /\ Exceeded(n, max_iterations)
    /\ failed' = NamesOf(Underived(fields))
    /\ pc' = "raised"
    /\ UNCHANGED <<fields, ldf, lf_schema, n, max_iterations, exprs, examined,
                   before, input, applied, aux>>

\* transform.py:113-115: get_exprs returns nothing: break
Break ==
    /\ pc = "loop"
    /\ ~Exceeded(n, max_iterations)
    /\ LET calls == Examine(fields, lf_schema, 1, n)
       IN  /\ get_exprs(calls) = <<>>
           /\ examined' = calls
           /\ exprs' = <<>>
    /\ before' = lf_schema
    /\ pc' = "literals"
    /\ UNCHANGED <<fields, ldf, lf_schema, n, max_iterations, input, applied, failed, aux>>

\* transform.py:113-117: one iteration that selects something: the batch is
\* applied to the dataset and its names are added to the schema
Round ==
    /\ pc = "loop"
    /\ ~Exceeded(n, max_iterations)
    /\ LET calls == Examine(fields, lf_schema, 1, n)
           batch == get_exprs(calls)
       IN  /\ batch # <<>>
           /\ examined' = calls
           /\ exprs' = batch
           /\ fields' = MarkDerived(fields, batch)
           /\ ldf' = with_columns(ldf, batch)
           /\ lf_schema' = lf_schema \cup {batch[j].name : j \in DOMAIN batch}
    /\ before' = lf_schema
    /\ applied' = applied + 1
    /\ n' = n + 1
    /\ UNCHANGED <<pc, max_iterations, input, failed, aux>>

\* transform.py:118: {col.name: col.literal for col in fields if not col.derived}
Literals(columns) ==
    [i \in DOMAIN columns |-> [name |-> columns[i].name, col |-> Literal(columns[i])]]

\* transform.py:118-120: the Fields not derived get their literal, the result
\* is the Model's columns in sorted order
Return ==
    /\ pc = "literals"
    /\ ldf' = select(with_columns(ldf, Literals(Underived(fields))),
                     Sorted(NamesOf(fields)))
    /\ pc' = "returned"
    /\ UNCHANGED <<fields, lf_schema, n, max_iterations, exprs, examined,
                   before, input, applied, failed, aux>>

\* the call is over: its locals are gone, the Model's Fields stay as the call
\* left them (model.py:78-80, 96-99: every call is given cls.fields)
Over ==
    /\ pc \in {"returned", "raised"}
    /\ pc' = "idle"
    /\ ldf' = EmptyFrame
    /\ lf_schema' = {}
    /\ n' = 0
    /\ max_iterations' = ITER_MAX
    /\ exprs' = <<>>
    /\ examined' = <<>>
    /\ before' = {}
    /\ input' = {}
    /\ applied' = 0
    /\ failed' = <<>>
    /\ UNCHANGED fields

Finish == Over /\ UNCHANGED aux

Next ==
    \/ \E data \in Inputs(fields), cap \in Caps : Transform(data, cap)
    \/ Raise
    \/ Break
    \/ Round
    \/ Return
    \/ Finish

Spec == Init /\ [][Next]_vars

----------------------------------------------------------------------------
(* What the claims speak of *)

FieldNamed(nm) == fields[CHOOSE i \in DOMAIN fields : fields[i].name = nm]

FieldNames == {fields[i].name : i \in DOMAIN fields}

\* an iteration of the running call has selected a batch
InRound == pc = "loop" /\ exprs # <<>>

\* the Fields derived after k iterations, whatever the order of the Fields:
\* those derived before, and those with an expression whose roots are among
\* the dataset's columns and the names derived before
RECURSIVE DerivedAfter(_)
DerivedAfter(k) ==
    IF k = 0 THEN {}
    ELSE LET d == DerivedAfter(k - 1)
         IN  d \cup {fields[i].name : i \in
                 {j \in DOMAIN fields :
                     \E e \in DOMAIN fields[j].exprs :
                         fields[j].exprs[e].roots \subseteq (input \cup d)}}

\* the number of iterations that derive something: the depth of the dependencies
Depth == CHOOSE k \in 0..Len(fields) :
            /\ DerivedAfter(k + 1) = DerivedAfter(k)
            /\ \A j \in 0..(k - 1) : DerivedAfter(j + 1) # DerivedAfter(j)

----------------------------------------------------------------------------
(* C1 *)

\* C1: every expression in the batch of an iteration has all its roots in the
\* schema as it stood when the iteration began, and every derived column of
\* the dataset comes from an expression whose roots are all in the schema.
C1_BatchRootsAvailable ==
    /\ \A j \in DOMAIN exprs : exprs[j].roots \subseteq before
    /\ \A c \in Range(ldf.names) :
          ldf.col[c].kind = "expr" =>
              FieldNamed(c).exprs[ldf.col[c].idx].roots \subseteq lf_schema

\* C1 witness: a batch was selected while another Field, examined in the same
\* iteration, had an expression with one root present and one missing
C1_Witness ==
    /\ InRound
    /\ \E j \in DOMAIN examined :
          /\ examined[j].idx = 0
          /\ \E e \in DOMAIN FieldNamed(examined[j].name).exprs :
                LET r == FieldNamed(examined[j].name).exprs[e].roots
                IN  r \cap before # {} /\ ~(r \subseteq before)

----------------------------------------------------------------------------
(* C2 *)

\* C2: the expression selected for a Field is the earliest-declared one whose
\* roots are all in the schema at the start of the iteration: no expression
\* declared before the selected one was satisfiable then.
C2_EarliestCandidate ==
    \A j \in DOMAIN exprs :
        /\ exprs[j].idx \in DOMAIN FieldNamed(exprs[j].name).exprs
        /\ exprs[j].roots = FieldNamed(exprs[j].name).exprs[exprs[j].idx].roots
        /\ \A e \in 1..(exprs[j].idx - 1) :
              ~(FieldNamed(exprs[j].name).exprs[e].roots \subseteq before)

\* C2 witness: a Field resolved by its first expression in an iteration at
\* whose start its second expression was satisfiable too
C2_Witness ==
    /\ InRound
    /\ \E j \in DOMAIN exprs :
          /\ exprs[j].idx = 1
          /\ Len(FieldNamed(exprs[j].name).exprs) >= 2
          /\ FieldNamed(exprs[j].name).exprs[2].roots \subseteq before

----------------------------------------------------------------------------
(* C3 *)

\* C3 as stated: no column produced by an expression selected in an iteration
\* is in the schema given to any get_expr call of that iteration.
C3_ProducedNameUnseen ==
    \A j \in DOMAIN exprs : \A x \in DOMAIN examined :
        exprs[j].name \notin examined[x].saw

\* C3 amended: every get_expr call of an iteration is given the schema as it
\* stood when the iteration began, so a produced column is in it only if a
\* column of that name was there before; the produced names are in the schema
\* once the iteration is over.
C3_RoundBatching ==
    /\ \A x \in DOMAIN examined : examined[x].saw = before
    /\ \A j \in DOMAIN exprs :
          /\ exprs[j].name \in lf_schema
          /\ \A x \in DOMAIN examined :
                exprs[j].name \in examined[x].saw => exprs[j].name \in before

\* C3 witness: a Field was left unresolved in an iteration that produced the
\* very column its expression needs, a column not in the dataset before
C3_Witness ==
    /\ InRound
    /\ \E j \in DOMAIN exprs, x \in DOMAIN examined :
          /\ examined[x].idx = 0
          /\ exprs[j].name \notin before
          /\ \E e \in DOMAIN FieldNamed(examined[x].name).exprs :
                FieldNamed(examined[x].name).exprs[e].roots = {exprs[j].name}

----------------------------------------------------------------------------
(* C4 *)

\* every Field is derived at some depth, and that depth is within the cap
Convergent ==
    /\ pc # "idle"
    /\ DerivedAfter(Depth) = FieldNames
    /\ Depth <= max_iterations

\* C4: when every Field is derivable and the dependency depth is at most
\* max_iterations, the loop runs no more iterations than the depth that derive
\* something, the call raises nothing, and once the loop is left every Field
\* is derived and the result holds no default literal.
C4_FixedPointConvergence ==
    Convergent =>
        /\ pc # "raised"
        /\ n <= Depth
        /\ pc \in {"literals", "returned"} =>
              \A i \in DOMAIN fields : fields[i].derived
        /\ pc = "returned" =>
              \A c \in Range(ldf.names) : ldf.col[c].kind = "expr"

\* C4 witness: a call returned whose depth equals the default cap exactly
C4_Witness ==
    /\ Convergent
    /\ pc = "returned"
    /\ Depth = max_iterations
    /\ max_iterations = ITER_MAX

----------------------------------------------------------------------------
(* C5 *)

\* C5: when the RuntimeError is raised the cap was exceeded, at least one
\* Field is not derived, and the error names exactly the Fields not derived.
C5_TimeoutOnlyWhenUnresolved ==
    pc = "raised" =>
        /\ n > max_iterations
        /\ Range(failed) = {fields[i].name : i \in {j \in DOMAIN fields : ~fields[j].derived}}
        /\ failed # <<>>

----------------------------------------------------------------------------
(* C6 *)

\* C6: no call applies more than max_iterations batches to the dataset.
C6_AtMostCapBatches == applied <= max_iterations

----------------------------------------------------------------------------
(* C7 *)

\* no expression of the Field ever has its roots among the columns of the
\* dataset and the names derived, at any depth
NeverSatisfiable(col) ==
    \A k \in 0..Len(fields) : \A e \in DOMAIN col.exprs :
        ~(col.exprs[e].roots \subseteq (input \cup DerivedAfter(k)))

\* C7: in the result of a call, a Field none of whose expressions is ever
\* satisfiable holds its default (None when it has none) cast to its dtype;
\* the condition and the column do not depend on the order of the Fields.
C7_DefaultFallback ==
    pc = "returned" =>
        \A i \in DOMAIN fields :
            NeverSatisfiable(fields[i]) =>
                /\ ldf.col[fields[i].name].kind = "lit"
                /\ ldf.col[fields[i].name].value = fields[i].default
                /\ ldf.col[fields[i].name].dtype = fields[i].dtype

\* C7 witness: a result with a Field derived after the first iteration, and,
\* declared before it, a never-satisfiable Field without a default
C7_Witness ==
    /\ pc = "returned"
    /\ \E i, j \in DOMAIN fields :
          /\ i < j
          /\ NeverSatisfiable(fields[i])
          /\ fields[i].default = NONE
          /\ fields[i].dtype # Unknown
          /\ ldf.col[fields[j].name].kind = "expr"
          /\ ldf.col[fields[j].name].round > 0

----------------------------------------------------------------------------
(* C8 *)

\* two Fields whose sole expressions need each other, neither in the dataset
Circular ==
    /\ pc # "idle"
    /\ Len(fields) = 2
    /\ \A i \in DOMAIN fields :
          /\ Len(fields[i].exprs) = 1
          /\ fields[i].exprs[1].roots = {fields[3 - i].name}
    /\ input \cap FieldNames = {}

\* C8: with a circular pair the first iteration selects nothing and the loop
\* is left at once: no batch is applied, nothing is raised, no Field is ever
\* derived, and both Fields hold their default literal in the result.
C8_CircularFallsBack ==
    Circular =>
        /\ pc # "raised"
        /\ n = 0 /\ applied = 0 /\ exprs = <<>>
        /\ \A i \in DOMAIN fields : ~fields[i].derived
        /\ pc = "returned" =>
              \A i \in DOMAIN fields : ldf.col[fields[i].name] = Literal(fields[i])

\* C8 witness: a circular pair's call returned under a cap of 0
C8_Witness == Circular /\ pc = "returned" /\ max_iterations = 0

----------------------------------------------------------------------------
(* C9 *)

----------------------------------------------------------------------------
(* C10 *)

\* C10: a call on a dataset without columns (hence without rows) runs no
\* iteration, evaluates no expression and no default literal.
C10_EmptyInputSkipsAll ==
    (pc \in {"literals", "returned"} /\ input = {}) =>
        /\ examined = <<>>
        /\ applied = 0
        /\ \A c \in Range(ldf.names) : ldf.col[c].kind \notin {"expr", "lit"}

----------------------------------------------------------------------------
(* Two calls of transform() at once on the Fields of one Model              *)
(* (model.py:78-80: every call is given cls.fields, the same Field          *)
(* objects).  Each call has its own locals; the derived flags are the       *)
(* Fields'.  A step is one statement of transform() or one get_expr call.   *)

\* two Fields a, b in both orders, each with one expression of at most one root
SharedModels ==
    LET roots == AtMostOne({"a", "b", "x"})
        F(nm, r) == Field(nm, <<Expr(r)>>, DtypeOf(nm), DefaultOf(nm))
    IN  {<<F(p[1], r[1]), F(p[2], r[2])>> :
            <<p, r>> \in {<<"a", "b">>, <<"b", "a">>} \X (roots \X roots)}

SharedCaps == {0, ITER_MAX}

InitShared ==
    /\ fields \in SharedModels
    /\ running = [c \in Calls |-> IdleCall]
    /\ earlier = "none"
    /\ declared = <<>>
    /\ classes = <<>>
    /\ pc = "idle"
    /\ ldf = EmptyFrame
    /\ lf_schema = {}
    /\ n = 0
    /\ max_iterations = ITER_MAX
    /\ exprs = <<>>
    /\ examined = <<>>
    /\ before = {}
    /\ input = {}
    /\ applied = 0
    /\ failed = <<>>
    /\ Unshaped
    /\ Unallocated

single == <<pc, ldf, lf_schema, n, max_iterations, exprs, examined, before,
            input, applied, failed, earlier, declared, classes, shape, heap>>

\* transform.py:102-104 in call c
Start(c, data, cap) ==
    /\ running[c].pc = "idle"
    /\ fields' = ResetDerived(fields)
    /\ running' = [running EXCEPT ![c] =
            [pc |-> "loop", ldf |-> Frame(data), lf_schema |-> Range(data), n |-> 0,
             max_iterations |-> cap, exprs |-> <<>>, i |-> 0, input |-> Range(data)]]
    /\ UNCHANGED single

\* transform.py:105-112 in call c: the top of an iteration
Check(c) ==
    /\ running[c].pc = "loop"
    /\ running' = [running EXCEPT ![c] =
            IF Exceeded(@.n, @.max_iterations)
            THEN [@ EXCEPT !.pc = "raised"]
            ELSE [@ EXCEPT !.pc = "get_exprs", !.exprs = <<>>, !.i = 1]]
    /\ UNCHANGED <<fields, single>>

\* transform.py:94-98 in call c: get_exprs comes to the next Field: a Field
\* that is not derived is asked for its expression, which sets its flag
NextField(c) ==
    /\ running[c].pc = "get_exprs"
    /\ running[c].i <= Len(fields)
    /\ LET col == fields[running[c].i]
           k == IF col.derived THEN 0 ELSE GetExpr(col, running[c].lf_schema)
       IN  /\ fields' = IF k = 0 THEN fields
                        ELSE [fields EXCEPT ![running[c].i].derived = TRUE]
           /\ running' = [running EXCEPT ![c] =
                  [@ EXCEPT !.i = @ + 1,
                            !.exprs = IF k = 0 THEN @
                                      ELSE Append(@, [name |-> col.name,
                                                      col |-> ExprCol(col, k, running[c].n)])]]
    /\ UNCHANGED single

\* transform.py:114-117 in call c: get_exprs has returned
Apply(c) ==
    /\ running[c].pc = "get_exprs"
    /\ running[c].i > Len(fields)
    /\ running' = [running EXCEPT ![c] =
            IF @.exprs = <<>>
            THEN [@ EXCEPT !.pc = "literals"]
            ELSE [@ EXCEPT !.pc = "loop",
                           !.ldf = with_columns(@, running[c].exprs),
                           !.lf_schema = @ \cup {running[c].exprs[j].name :
                                                    j \in DOMAIN running[c].exprs},
                           !.n = @ + 1]]
    /\ UNCHANGED <<fields, single>>

\* transform.py:118-120 in call c: select fails on a name the dataset lacks
\* (polars ColumnNotFoundError)
Project(c) ==
    /\ running[c].pc = "literals"
    /\ LET frame == with_columns(running[c].ldf, Literals(Underived(fields)))
           names == Sorted(NamesOf(fields))
       IN  running' = [running EXCEPT ![c] =
               IF Range(names) \subseteq Range(frame.names)
               THEN [@ EXCEPT !.pc = "returned", !.ldf = select(frame, names)]
               ELSE [@ EXCEPT !.pc = "column_not_found", !.ldf = frame]]
    /\ UNCHANGED <<fields, single>>

NextShared ==
    \/ \E c \in Calls, data \in Inputs(fields), cap \in SharedCaps : Start(c, data, cap)
    \/ \E c \in Calls : Check(c)
    \/ \E c \in Calls : NextField(c)
    \/ \E c \in Calls : Apply(c)
    \/ \E c \in Calls : Project(c)

SpecShared == InitShared /\ [][NextShared]_vars

\* transform() run alone from its iteration i on: how it ends and what it returns
\* and the batch of each of its iterations
RECURSIVE RunFrom(_, _, _, _, _, _)
RunFrom(columns, frame, names, i, cap, batches) ==
    IF Exceeded(i, cap) THEN [pc |-> "raised", ldf |-> frame, batches |-> batches]
    ELSE LET batch == get_exprs(Examine(columns, names, 1, i))
         IN  IF batch = <<>>
             THEN [pc |-> "returned",
                   ldf |-> select(with_columns(frame, Literals(Underived(columns))),
                                  Sorted(NamesOf(columns))),
                   batches |-> batches]
             ELSE RunFrom(MarkDerived(columns, batch), with_columns(frame, batch),
                          names \cup {batch[j].name : j \in DOMAIN batch}, i + 1, cap,
                          Append(batches, batch))

\* the Fields as the Model was assembled with them (field.py:52: derived = False)
Pristine(columns) ==
    [i \in DOMAIN columns |->
        Field(columns[i].name, columns[i].exprs, columns[i].dtype, columns[i].default)]

\* transform(ldf, fields, max_iterations) run alone on the Fields of a Model
\* no call has used
RunAlone(columns, data, cap) ==
    RunFrom(Pristine(columns), Frame(data), Range(data), 0, cap, <<>>)

Ended(c) == running[c].pc \in {"returned", "raised", "column_not_found"}

DatasetOf(c) == SelectSeq(InputColumns, LAMBDA name : name \in running[c].input)

\* C11: a call that ran while another call was using the same Fields ends as
\* it would have ended alone: it returns or raises as alone, and when it
\* returns its columns are those of the call run alone.
C11_InterleavedAsAlone ==
    \A c \in Calls :
        Ended(c) =>
            LET alone == RunAlone(fields, DatasetOf(c), running[c].max_iterations)
            IN  /\ running[c].pc = alone.pc
                /\ running[c].pc = "returned" => running[c].ldf = alone.ldf

----------------------------------------------------------------------------
(* Calls of transform() one after another on the Fields of one Model, with  *)
(* a note of how the call before ended                                      *)

InitAgain ==
    /\ fields \in TwoFieldModels
    /\ running = [c \in Calls |-> IdleCall]
    /\ earlier = "none"
    /\ declared = <<>>
    /\ classes = <<>>
    /\ pc = "idle"
    /\ ldf = EmptyFrame
    /\ lf_schema = {}
    /\ n = 0
    /\ max_iterations = ITER_MAX
    /\ exprs = <<>>
    /\ examined = <<>>
    /\ before = {}
    /\ input = {}
    /\ applied = 0
    /\ failed = <<>>
    /\ Unshaped
    /\ Unallocated

\* the call is over and the next call will follow it
FinishNoted ==
    /\ Over
    /\ earlier' = pc
    /\ UNCHANGED <<running, declared, classes, shape, heap>>

NextAgain ==
    \/ \E data \in Inputs(fields), cap \in Caps : Transform(data, cap)
    \/ Raise
    \/ Break
    \/ Round
    \/ Return
    \/ FinishNoted

SpecAgain == InitAgain /\ [][NextAgain]_vars

\* the dataset the running call was given
Dataset == SelectSeq(InputColumns, LAMBDA name : name \in input)

\* C12: whatever calls ran before it on the same Fields, and however they
\* ended, a call selects in each iteration the batch a call on the untouched
\* Model selects in that iteration (the same expression of the same Fields,
\* in the same order), raises exactly when that call raises, and returns the
\* same columns in the same order.
C12_SameAsFirstRun ==
    pc # "idle" =>
        LET alone == RunAlone(fields, Dataset, max_iterations)
        IN  /\ n <= Len(alone.batches)
            /\ applied = n
            /\ (pc = "loop" /\ n > 0) => exprs = alone.batches[n]
            /\ pc \in {"literals", "returned"} =>
                   alone.pc = "returned" /\ n = Len(alone.batches)
            /\ pc = "returned" => ldf = alone.ldf
            /\ pc = "raised" => alone.pc = "raised"

\* a call that followed a call that raised has derived a Field and returned
C12_Witness ==
    /\ earlier = "raised"
    /\ pc = "returned"
    /\ \E i \in DOMAIN fields : fields[i].derived

----------------------------------------------------------------------------
(* C13 *)

\* C13: no step of a transform() call, returning or raising, changes an
\* attribute of a Field of the Model: the Fields are after the call what they
\* were before it, and nothing of the call is kept on them.
C13_FieldsNeverWritten == [][fields' = fields]_vars

----------------------------------------------------------------------------
(* C14 *)

Swap(s, i) ==
    [j \in DOMAIN s |-> IF j = i THEN s[i + 1] ELSE IF j = i + 1 THEN s[i] ELSE s[j]]

\* the same Fields listed in another order: every order of up to three
\* Fields; of more Fields the reverse order and every exchange of two neighbours
Reorderings(columns) ==
    IF Len(columns) <= 3
    THEN {[i \in DOMAIN columns |-> columns[f[i]]] : f \in Permutations(DOMAIN columns)}
    ELSE {Reverse(columns)} \cup {Swap(columns, i) : i \in 1..(Len(columns) - 1)}

\* how each Field of the Model was resolved in a dataset: the expression
\* taken, with its iteration, or the literal
Resolutions(frame) ==
    [c \in FieldNames \cap Range(frame.names) |-> frame.col[c]]

\* C14: a call that has ended ended as a call on the same Fields listed in any
\* other order ends: both return or both raise, every Field got the same
\* expression in the same iteration or the default in both, and a returned
\* dataset is the same, column for column.
C14_OrderIndependent ==
    pc \in {"returned", "raised"} =>
        \A columns \in Reorderings(fields) :
            LET other == RunAlone(columns, Dataset, max_iterations)
            IN  /\ other.pc = pc
                /\ Resolutions(other.ldf) = Resolutions(ldf)
                /\ pc = "returned" => other.ldf = ldf

\* three Fields not listed in sorted order: one derived from the dataset, one
\* from that Field an iteration later, one given its default
C14_Witness ==
    /\ pc = "returned"
    /\ Len(fields) = 3
    /\ NamesOf(fields) # Sorted(NamesOf(fields))
    /\ \E c1, c2, c3 \in FieldNames :
          /\ ldf.col[c1].kind = "expr" /\ ldf.col[c1].round = 0
          /\ ldf.col[c2].kind = "expr" /\ ldf.col[c2].round = 1
          /\ ldf.col[c3].kind = "lit"

----------------------------------------------------------------------------
(* Binding a Field to its name (field.py).  An authored expression is known *)
(* by the column names at its leaves, in order (what Expr.meta.root_names() *)
(* returns); its serialization is its text as far as the names go.  The     *)
(* literals are spelled: "0" is the number 0, "none" the str 'none'.        *)

PLACEHOLDER == "__field__"

\* a pl.Expr as its author wrote it
Authored(leaves) == [kind |-> "Expr", leaves |-> leaves, value |-> NONE]

\* a value that is no pl.Expr: a literal, or None
Plain(value) == [kind |-> "value", leaves |-> <<>>, value |-> value]

\* bool(value): None, 0 and '' are false
Truthy(value) == value \notin {NONE, "0", ""}

\* the expression value_expr returns: its roots, its cast, and the default
\* its nulls are filled with (NONE: no fill_null)
Bound(leaves, dtype, fill) == [roots |-> Range(leaves), cast |-> dtype, fill |-> fill]

\* the double quote that encloses a name in the JSON text
Quote == 34

\* Expr.meta.serialize(format="json"), as far as the column names go
RECURSIVE serialize(_)
serialize(leaves) ==
    IF leaves = <<>> THEN <<>>
    ELSE <<Quote>> \o Chars[Head(leaves)] \o <<Quote>> \o serialize(Tail(leaves))

IsPrefix(old, text) ==
    Len(old) <= Len(text) /\ SubSeq(text, 1, Len(old)) = old

\* str.replace(old, new): every occurrence, left to right
RECURSIVE replace(_, _, _)
replace(text, old, new) ==
    IF text = <<>> THEN <<>>
    ELSE IF IsPrefix(old, text)
         THEN new \o replace(SubSeq(text, Len(old) + 1, Len(text)), old, new)
         ELSE <<Head(text)>> \o replace(Tail(text), old, new)

\* the column name with these characters
Named(chars) == CHOOSE nm \in DOMAIN Chars : Chars[nm] = chars

\* pl.Expr.deserialize(..., format="json"), as far as the column names go
RECURSIVE deserialize(_)
deserialize(text) ==
    IF text = <<>> THEN <<>>
    ELSE LET close == CHOOSE i \in 2..Len(text) :
                          text[i] = Quote /\ \A j \in 2..(i - 1) : text[j] # Quote
         IN  <<Named(SubSeq(text, 2, close - 1))>>
                 \o deserialize(SubSeq(text, close + 1, Len(text)))

\* field.py:9-13
root_replace(expr, to_replace, new_root) ==
    IF to_replace \in Range(expr.leaves)
    THEN [expr EXCEPT !.leaves =
             deserialize(replace(serialize(expr.leaves), Chars[to_replace], Chars[new_root]))]
    ELSE expr

NewFieldBare(args, name, primary_key, dtype, default) ==
    [exprs |-> <<>>, primary_key |-> primary_key, dtype |-> dtype, default |-> default,
     values |-> args, name |-> name, derived |-> FALSE, prepared |-> FALSE]

\* Field.__init__ (field.py:38-53)
NewField(args, name, primary_key, dtype, default) ==
    [exprs |-> <<>>, primary_key |-> primary_key, dtype |-> dtype, default |-> default,
     values |-> IF args # <<>> THEN args ELSE <<Authored(<<PLACEHOLDER>>)>>,
     name |-> name, derived |-> FALSE, prepared |-> FALSE]

\* Field.value_expr (field.py:75-82): the Field after the call (a value that
\* is no expression becomes its default) and the expression returned
value_expr(self, value) ==
    LET after == IF value.kind = "Expr" THEN self ELSE [self EXCEPT !.default = value.value]
        leaves == IF value.kind = "Expr"
                  THEN root_replace(value, PLACEHOLDER, self.name).leaves
                  ELSE <<self.name>>
    IN  [self |-> after,
         expr |-> Bound(leaves, self.dtype,
                        IF Truthy(after.default) THEN after.default ELSE NONE)]

\* the loop of prepare (field.py:88-90) from the k-th value on
RECURSIVE PrepareFrom(_, _)
PrepareFrom(self, k) ==
    IF k > Len(self.values) THEN self
    ELSE LET item == value_expr(self, self.values[k])
         IN  PrepareFrom([item.self EXCEPT !.exprs = Append(@, item.expr)], k + 1)

prepare_unnamed(self) ==
    [raised |-> FALSE,
     self |-> [PrepareFrom([self EXCEPT !.exprs = <<>>], 1) EXCEPT !.prepared = TRUE]]

\* Field.prepare (field.py:84-92): ValueError when the Field has no name
prepare(self) ==
    IF ~Truthy(self.name)
    THEN [raised |-> TRUE, self |-> self]
    ELSE [raised |-> FALSE,
          self |-> [PrepareFrom([self EXCEPT !.exprs = <<>>], 1) EXCEPT !.prepared = TRUE]]

\* Field.from_attributes (field.py:62-69)
from_attributes(name, dtype, value) ==
    IF value.kind = "Field"
    THEN prepare([value.field EXCEPT !.name = name, !.dtype = dtype])
    ELSE prepare(NewField(<<value>>, name, FALSE, dtype, NONE))

----------------------------------------------------------------------------
(* Assembling a Model from a class statement (model.py).  A class body is   *)
(* its statements in order, each [key, hint, value]: hint NONE for a name   *)
(* without annotation, value Absent for an annotation without a value.      *)

Absent == [kind |-> "absent", leaves |-> <<>>, value |-> NONE]

\* a def in the class body
Callable == [kind |-> "callable", leaves |-> <<>>, value |-> NONE]

\* a Field object as the value of a class attribute
Held(col) == [kind |-> "Field", leaves |-> <<>>, value |-> NONE, field |-> col]

\* the attrs a class body hands to the metaclass, with line 22 applied: the
\* names given a value, in order, then the names only annotated, valued None
Namespace(body) ==
    LET item(st) == [key |-> st.key,
                     value |-> IF st.value.kind = "absent" THEN Plain(NONE) ELSE st.value]
        valued == SelectSeq(body, LAMBDA st : st.value.kind # "absent")
        hinted == SelectSeq(body, LAMBDA st : st.value.kind = "absent")
    IN  [i \in DOMAIN valued |-> item(valued[i])] \o [i \in DOMAIN hinted |-> item(hinted[i])]

\* type_hints.get(key, pl.Unknown) (model.py:21, 31)
HintOf(body, key) ==
    IF \E i \in DOMAIN body : body[i].key = key /\ body[i].hint # NONE
    THEN body[CHOOSE i \in DOMAIN body : body[i].key = key /\ body[i].hint # NONE].hint
    ELSE Unknown

\* the public names of _Model.__dict__ (model.py:40-99)
ModelDict == {"expand", "expand_columns", "transform", "primary_key", "append", "collect"}

\* key.startswith("_")
Private(key) == IsPrefix(<<95>>, Chars[key])

\* fields[col.name] = col on a dict kept as the list of its values: a name
\* already in the dict keeps its place
SetItem(dict, col) ==
    IF \E i \in DOMAIN dict : dict[i].name = col.name
    THEN [dict EXCEPT ![CHOOSE i \in DOMAIN dict : dict[i].name = col.name] = col]
    ELSE Append(dict, col)

\* fields.update({field.name: field for field in base.fields})
RECURSIVE Update(_, _)
Update(dict, cols) ==
    IF cols = <<>> THEN dict ELSE Update(SetItem(dict, Head(cols)), Tail(cols))

\* model.py:24-26 from the k-th base on; a base is the fields of a Model
RECURSIVE Inherit(_, _, _)
Inherit(dict, bases, k) ==
    IF k > Len(bases) THEN dict ELSE Inherit(Update(dict, bases[k]), bases, k + 1)

\* model.py:28-34 from the k-th item of attrs on: the ValueError of prepare
\* leaves the loop, and no class is made
RECURSIVE Collect(_, _, _, _)
Collect(dict, attrs_, body, k) ==
    IF k > Len(attrs_) THEN [raised |-> FALSE, fields |-> dict, attrs |-> attrs_]
    ELSE LET key == attrs_[k].key
             value == attrs_[k].value
         IN  IF Private(key) \/ value.kind = "callable" \/ key \in ModelDict
             THEN Collect(dict, attrs_, body, k + 1)
             ELSE LET col == from_attributes(key, HintOf(body, key), value)
                      kept == [attrs_ EXCEPT ![k].value = Held(col.self)]
                  IN  IF col.raised
                      THEN [raised |-> TRUE, fields |-> <<>>,
                            attrs |-> IF value.kind = "Field" THEN kept ELSE attrs_]
                      ELSE Collect(SetItem(dict, col.self), kept, body, k + 1)

\* ModelMeta.__new__ (model.py:19-37)
ModelMeta(bases, body) == Collect(Inherit(<<>>, bases, 1), Namespace(body), body, 1)

\* _Model.primary_key (model.py:82-84)
primary_key(columns) == NamesOf(SelectSeq(columns, LAMBDA col : col.primary_key))

----------------------------------------------------------------------------
(* The class statements tried, and the program that executes them and then  *)
(* transforms datasets with the Model made last                             *)

AuthoredExprs ==
    {Authored(leaves) : leaves \in
        {<<PLACEHOLDER>>, <<"x">>, <<>>, <<"b">>, <<PLACEHOLDER, "x">>,
         <<PLACEHOLDER, "__field__x">>, <<"__field__x">>}}

\* the arguments of Field(...): none, one, or two of the simplest
ArgLists ==
    LET one == AuthoredExprs \cup {Plain("none")}
        two == {Authored(<<PLACEHOLDER>>), Authored(<<"x">>), Plain("none")}
    IN  {<<>>} \cup {<<v>> : v \in one} \cup {<<v, w>> : <<v, w>> \in two \X two}

FieldObjects ==
    {NewField(f[1], NONE, f[2], Unknown, f[3]) :
        f \in ArgLists \X BOOLEAN \X {NONE, "0", "none"}}

Statement(key, hint, value) == [key |-> key, hint |-> hint, value |-> value]

\* a Model of one attribute: any value under any kind of name, annotated or not
OneFieldBodies ==
    LET keys == {"a", "b", "", "_p", "collect"}
        values == AuthoredExprs \cup {Plain("none"), Plain("0"), Callable}
                      \cup {Held(col) : col \in FieldObjects}
    IN  {<<Statement(st[1], st[2], st[3])>> : st \in keys \X {NONE, Int64} \X values}
        \cup {<<Statement(key, Int64, Absent)>> : key \in keys}

\* bodies of one or two annotated attributes with distinct names: only
\* annotated, an expression, or the given primary-key Field
Bodies(keys, hint, key_field) ==
    LET values == {Absent, Authored(<<"x">>), Held(key_field)}
        one == {<<Statement(st[1], hint, st[2])>> : st \in keys \X values}
    IN  one \cup {p[1] \o p[2] : p \in {q \in one \X one : q[1][1].key # q[2][1].key}}

Class(bases, body) == [bases |-> bases, body |-> body]

\* a Model, and a Model that extends it: the parent's attributes are
\* annotated Int64, the child's String
Programs ==
    {<<Class(<<>>, body)>> : body \in OneFieldBodies}
    \cup {<<Class(<<>>, p[1]), Class(<<1>>, p[2])>> :
             p \in Bodies({"a", "b"}, Int64, NewField(<<>>, NONE, TRUE, Unknown, NONE))
                   \X Bodies({"a", "b", "c"}, String, NewField(<<>>, NONE, TRUE, Unknown, NONE))}

InitModel ==
    /\ declared \in Programs
    /\ classes = <<>>
    /\ fields = <<>>
    /\ running = [c \in Calls |-> IdleCall]
    /\ earlier = "none"
    /\ pc = "class"
    /\ ldf = EmptyFrame
    /\ lf_schema = {}
    /\ n = 0
    /\ max_iterations = ITER_MAX
    /\ exprs = <<>>
    /\ examined = <<>>
    /\ before = {}
    /\ input = {}
    /\ applied = 0
    /\ failed = <<>>
    /\ Unshaped
    /\ Unallocated

\* the next class statement is executed: the metaclass makes the Model, or
\* the ValueError of prepare ends the program
New ==
    /\ pc = "class"
    /\ LET st == declared[Len(classes) + 1]
           made == ModelMeta([i \in DOMAIN st.bases |-> classes[st.bases[i]].fields], st.body)
       IN  /\ classes' = Append(classes, made)
           /\ fields' = made.fields
           /\ pc' = IF made.raised THEN "ValueError"
                    ELSE IF Len(classes) + 1 = Len(declared) THEN "idle" ELSE "class"
    /\ UNCHANGED <<ldf, lf_schema, n, max_iterations, exprs, examined, before, input,
                   applied, failed, running, earlier, declared, shape, heap>>

NextModel ==
    \/ New
    \/ \E data \in Inputs(fields), cap \in SharedCaps : Transform(data, cap)
    \/ Raise
    \/ Break
    \/ Round
    \/ Return

SpecModel == InitModel /\ [][NextModel]_vars

----------------------------------------------------------------------------
(* The Field and the metaclass of main.py                                   *)

STANDIN == "__standin__"

\* Field.__init__ (main.py:87-93)
MainField(values, primary_key_, dtype, default) ==
    [expressions |-> <<>>, values |-> IF values # <<>> THEN values ELSE <<Plain(NONE)>>,
     primary_key |-> primary_key_, name |-> NONE, dtype |-> dtype, default |-> default]

\* the loop of set_exprs (main.py:114-126) from the k-th value on
RECURSIVE SetExprsFrom(_, _)
SetExprsFrom(self, k) ==
    IF k > Len(self.values) THEN self
    ELSE LET value == self.values[k]
             after == IF value.kind = "value" /\ value.value # NONE
                      THEN [self EXCEPT !.default = value.value] ELSE self
             expr == IF value.kind = "Expr"
                     THEN Bound(deserialize(replace(serialize(value.leaves),
                                                    Chars[STANDIN], Chars[self.name])),
                                self.dtype, NONE)
                     ELSE Bound(<<self.name>>, self.dtype,
                                IF value.value = NONE THEN NONE ELSE after.default)
         IN  SetExprsFrom([after EXCEPT !.expressions = Append(@, expr)], k + 1)

\* Field.set_exprs (main.py:111-126): ValueError when the Field has no name
set_exprs(self) ==
    IF ~Truthy(self.name) THEN [raised |-> TRUE, self |-> self]
    ELSE [raised |-> FALSE, self |-> SetExprsFrom(self, 1)]

\* main.py:191: the attributes that are neither private nor callable
ModelAttrs(body) ==
    SelectSeq(body, LAMBDA st : /\ st.value.kind \notin {"absent", "callable"}
                                /\ ~Private(st.key))

\* main.py:192: the annotations that are neither private nor df
ModelTypes(body) ==
    SelectSeq(body, LAMBDA st : st.hint # NONE /\ ~Private(st.key) /\ st.key # "df")

KeysOf(body) == {body[i].key : i \in DOMAIN body}

\* the orders in which a set of str may be iterated: the order follows the
\* hashes of the keys, which differ from one interpreter run to the next
Orders(keys) ==
    {order \in [1..Cardinality(keys) -> keys] : Range(order) = keys}

\* main.py:194-201 from the k-th key of the iteration on
RECURSIVE Gather(_, _, _, _)
Gather(made, body, order, k) ==
    IF k > Len(order) THEN [raised |-> FALSE, fields |-> made]
    ELSE LET col == order[k]
             given == SelectSeq(ModelAttrs(body), LAMBDA st : st.key = col)
             value == IF given = <<>> THEN Plain(NONE) ELSE given[1].value
             typed == SelectSeq(ModelTypes(body), LAMBDA st : st.key = col)
             dtype == IF typed = <<>> THEN NONE ELSE typed[1].hint
             new == IF value.kind = "Field" THEN value.field
                    ELSE MainField(<<value>>, FALSE, NONE, NONE)
             set == set_exprs([new EXCEPT !.dtype = dtype, !.name = col])
         IN  IF set.raised THEN [raised |-> TRUE, fields |-> <<>>]
             ELSE Gather(Append(made, set.self), body, order, k + 1)

\* main.py:203-205
RECURSIVE Extend(_, _, _)
Extend(made, bases, k) ==
    IF k > Len(bases) THEN made ELSE Extend(made \o bases[k], bases, k + 1)

\* TadpoleMeta.__new__ (main.py:188-209), the set of main.py:194 iterated in
\* the given order
TadpoleMeta(bases, body, order) ==
    LET own == Gather(<<>>, body, order, 1)
        all == Extend(own.fields, bases, 1)
    IN  IF own.raised THEN [raised |-> TRUE, fields |-> <<>>, primary_key |-> <<>>]
        ELSE [raised |-> FALSE, fields |-> all, primary_key |-> primary_key(all)]

\* the same programs for the Model of main.py
TadpolePrograms ==
    LET keys == {"a", "", "_p", "df"}
        values == {Authored(<<STANDIN>>), Authored(<<"x">>), Plain("none"), Callable,
                   Held(MainField(<<>>, FALSE, NONE, "0"))}
        key_field == MainField(<<>>, TRUE, NONE, NONE)
    IN  {<<Class(<<>>, <<Statement(st[1], st[2], st[3])>>)>> :
            st \in keys \X {NONE, Int64} \X values}
        \cup {<<Class(<<>>, p[1]), Class(<<1>>, p[2])>> :
                 p \in Bodies({"a", "b"}, Int64, key_field)
                       \X Bodies({"a", "b", "c"}, String, key_field)}

InitTadpole ==
    /\ declared \in TadpolePrograms
    /\ classes = <<>>
    /\ fields = <<>>
    /\ running = [c \in Calls |-> IdleCall]
    /\ earlier = "none"
    /\ pc = "class"
    /\ ldf = EmptyFrame
    /\ lf_schema = {}
    /\ n = 0
    /\ max_iterations = ITER_MAX
    /\ exprs = <<>>
    /\ examined = <<>>
    /\ before = {}
    /\ input = {}
    /\ applied = 0
    /\ failed = <<>>
    /\ Unshaped
    /\ Unallocated

\* the next class statement is executed by the metaclass of main.py
NewTadpole ==
    /\ pc = "class"
    /\ LET st == declared[Len(classes) + 1]
           keys == KeysOf(ModelAttrs(st.body)) \cup KeysOf(ModelTypes(st.body))
       IN  \E order \in Orders(keys) :
               LET made == TadpoleMeta([i \in DOMAIN st.bases |-> classes[st.bases[i]].fields],
                                       st.body, order)
               IN  /\ classes' = Append(classes, made)
                   /\ fields' = made.fields
                   /\ pc' = IF made.raised THEN "ValueError"
                            ELSE IF Len(classes) + 1 = Len(declared) THEN "idle" ELSE "class"
    /\ UNCHANGED <<ldf, lf_schema, n, max_iterations, exprs, examined, before, input,
                   applied, failed, running, earlier, declared, shape, heap>>

NextTadpole == NewTadpole

SpecTadpole == InitTadpole /\ [][NextTadpole]_vars

----------------------------------------------------------------------------
(* C15 *)

\* the last class statement has made a Model that extends the Model made first
Extended ==
    /\ pc # "class"
    /\ Len(declared) = 2
    /\ Len(classes) = 2
    /\ ~classes[2].raised

\* C15: in a Model that extends another, no two Fields have the same name; a
\* name the child declares is the child's Field (it has the child's
\* annotation), and every Field of the parent under a name the child does not
\* declare is a Field of the Model.
C15_OverrideByName ==
    Extended =>
        LET parent == classes[1].fields
            child == declared[2].body
            model == classes[2].fields
        IN  /\ \A i, j \in DOMAIN model : model[i].name = model[j].name => i = j
            /\ \A i \in DOMAIN model :
                   model[i].name \in KeysOf(child) =>
                       model[i].dtype = HintOf(child, model[i].name)
            /\ \A k \in DOMAIN child : \E i \in DOMAIN model : model[i].name = child[k].key
            /\ \A k \in DOMAIN parent :
                   parent[k].name \notin KeysOf(child) =>
                       \E i \in DOMAIN model : model[i] = parent[k]

----------------------------------------------------------------------------
(* C16 *)

\* C16: the field list of a Model that extends another is the child's own
\* Fields in the order of their declaration, followed by the parent's Fields
\* under names the child does not declare, in the parent's order.
C16_ChildFirstOrder ==
    Extended =>
        LET child == declared[2].body
            own == [k \in DOMAIN child |-> child[k].key]
            inherited == SelectSeq(NamesOf(classes[1].fields),
                                   LAMBDA name : name \notin KeysOf(child))
        IN  NamesOf(classes[2].fields) = own \o inherited

----------------------------------------------------------------------------
(* C17 *)

\* the place of the first Field of that name in a field list
PlaceOf(columns, name) ==
    CHOOSE i \in DOMAIN columns :
        columns[i].name = name /\ \A j \in 1..(i - 1) : columns[j].name # name

\* the iteration orders the metaclass of main.py may take for the k-th class
OrdersOf(k) ==
    Orders(KeysOf(ModelAttrs(declared[k].body)) \cup KeysOf(ModelTypes(declared[k].body)))

\* C17: the primary_key of every Model made lists the names of the Fields
\* flagged primary_key, all of them and no other, each once, in the order of
\* the Model's field list, and it is the list every assembly of the same
\* class statement gives.
C17_PrimaryKeyList ==
    \A k \in DOMAIN classes :
        ~classes[k].raised =>
            LET pk == classes[k].primary_key
                model == classes[k].fields
                bases == [i \in DOMAIN declared[k].bases |->
                             classes[declared[k].bases[i]].fields]
            IN  /\ Range(pk) = {model[i].name : i \in {j \in DOMAIN model : model[j].primary_key}}
                /\ \A i, j \in DOMAIN pk : pk[i] = pk[j] => i = j
                /\ \A i, j \in DOMAIN pk :
                       i < j => PlaceOf(model, pk[i]) <= PlaceOf(model, pk[j])
                /\ \A order \in OrdersOf(k) :
                       TadpoleMeta(bases, declared[k].body, order).primary_key = pk

----------------------------------------------------------------------------
(* C18 *)

\* the Fields bound by the metaclass of model.py so far
BoundFields ==
    UNION {{classes[k].attrs[i].value.field : i \in
               {j \in DOMAIN classes[k].attrs :
                   /\ classes[k].attrs[j].value.kind = "Field"
                   /\ classes[k].attrs[j].value.field.prepared}} :
           k \in DOMAIN classes}

\* the roots an authored value is to have once bound to the name
Rebound(value, name) ==
    IF value.kind = "Expr"
    THEN {IF leaf = PLACEHOLDER THEN name ELSE leaf : leaf \in Range(value.leaves)}
    ELSE {name}

\* C18: a bound Field has one expression for each authored value, in the
\* same order; none has the placeholder among its roots, and the roots of
\* each are the authored ones with the placeholder replaced by the Field's
\* name and every other root as authored.
C18_PlaceholderRebound ==
    \A col \in BoundFields :
        /\ Len(col.exprs) = Len(col.values)
        /\ \A k \in DOMAIN col.exprs :
               /\ PLACEHOLDER \notin col.exprs[k].roots
               /\ col.exprs[k].roots = Rebound(col.values[k], col.name)

----------------------------------------------------------------------------
(* C19 *)

\* the statements of a class body the metaclass makes a Field of
Binding(body) ==
    SelectSeq(body, LAMBDA st : /\ ~Private(st.key)
                                /\ st.value.kind # "callable"
                                /\ st.key \notin ModelDict)

\* the value the class body gave the name
Declared(k, key) ==
    declared[k].body[CHOOSE i \in DOMAIN declared[k].body : declared[k].body[i].key = key].value

\* C19: a class statement that binds a Field under an empty name fails with
\* the ValueError and makes no Model; the Field object it was binding has the
\* expressions and the prepared flag it was declared with; and every Field a
\* transform() call examines has a name and is prepared.
C19_UnnamedFailsAtAssembly ==
    /\ \A k \in DOMAIN classes :
           /\ classes[k].raised <=>
                  \E i \in DOMAIN Binding(declared[k].body) :
                      ~Truthy(Binding(declared[k].body)[i].key)
           /\ classes[k].raised =>
                  /\ classes[k].fields = <<>>
                  /\ \A i \in DOMAIN classes[k].attrs :
                         LET now == classes[k].attrs[i].value
                             was == Declared(k, classes[k].attrs[i].key)
                         IN  (now.kind = "Field" /\ ~Truthy(now.field.name)) =>
                                 /\ was.kind = "Field"
                                 /\ now.field.exprs = was.field.exprs
                                 /\ now.field.prepared = was.field.prepared
    /\ pc = "ValueError" => fields = <<>>
    /\ \A i \in DOMAIN fields : Truthy(fields[i].name) /\ fields[i].prepared
    /\ \A i \in DOMAIN examined : Truthy(examined[i].name)

\* the class statement gave the empty name a Field with two authored
\* expressions, and has failed
C19_Witness ==
    /\ pc = "ValueError"
    /\ \E i \in DOMAIN classes[1].attrs :
          /\ classes[1].attrs[i].key = ""
          /\ classes[1].attrs[i].value.kind = "Field"
          /\ Len(classes[1].attrs[i].value.field.values) = 2
          /\ classes[1].attrs[i].value.field.name = ""

----------------------------------------------------------------------------
(* C20 *)

\* the class body gives the name no expression: only an annotation, only a
\* literal, or a Field(...) without arguments or with one literal
NoCandidate(value) ==
    \/ value.kind \in {"absent", "value"}
    \/ /\ value.kind = "Field"
       /\ \/ value.field.values = NewField(<<>>, NONE, FALSE, Unknown, NONE).values
          \/ Len(value.field.values) = 1 /\ value.field.values[1].kind = "value"

\* the Field reads the column of its own name and has no other expression
Identity(col) == Len(col.exprs) = 1 /\ col.exprs[1].roots = {col.name}

BatchNames == {exprs[j].name : j \in DOMAIN exprs}

\* C20: a Field declared without an expression is bound with exactly one
\* expression, whose roots are the Field's own name; such a Field is in the
\* batch of the first iteration exactly when the dataset has a column of its
\* name and in no later batch, and a call that returns gives it that
\* expression, taken in the first iteration, when the dataset has the column,
\* and its default literal when not.
C20_ImplicitIdentity ==
    /\ \A k \in DOMAIN classes : \A i \in DOMAIN classes[k].attrs :
           LET now == classes[k].attrs[i].value
           IN  (now.kind = "Field" /\ now.field.prepared
                   /\ NoCandidate(Declared(k, classes[k].attrs[i].key)))
               => Identity(now.field)
    /\ \A i \in DOMAIN fields :
           Identity(fields[i]) =>
               LET name == fields[i].name
               IN  /\ (pc = "loop" /\ n = 1) => (name \in BatchNames <=> name \in input)
                   /\ (pc = "loop" /\ n > 1) => name \notin BatchNames
                   /\ pc = "literals" => (fields[i].derived <=> name \in input)
                   /\ pc = "returned" =>
                          ldf.col[name] = IF name \in input THEN ExprCol(fields[i], 1, 0)
                                          ELSE Literal(fields[i])

\* a Model of two Fields that are only annotated, one inherited: the call has
\* returned, one Field read from the dataset's column of its name, the other
\* given its default
C20_Witness ==
    /\ pc = "returned"
    /\ Len(declared) = 2
    /\ \A k \in DOMAIN declared : \A i \in DOMAIN declared[k].body :
           declared[k].body[i].value.kind = "absent"
    /\ \E c1, c2 \in FieldNames :
           /\ c1 \in input /\ ldf.col[c1].kind = "expr"
           /\ c2 \notin input /\ ldf.col[c2].kind = "lit"
----------------------------------------------------------------------------
(* C21 *)

\* C21: every expression of a bound Field whose default is set (not None,
\* falsy or not) fills its nulls with that default, the very value the
\* fallback literal of the Field is made of.
C21_CandidatesFillDefault ==
    \A col \in BoundFields :
        col.default # NONE =>
            \A k \in DOMAIN col.exprs :
                /\ col.exprs[k].fill = col.default
                /\ col.exprs[k].fill = Literal(col).value
----------------------------------------------------------------------------
(* normalize (transform.py:26-91, main.py:25-59).  A dataset is here its    *)
(* columns in order, each a name and a type; a name is its characters, so   *)
(* that the names unnest_rename makes, and the test that restricts          *)
(* normalize to some columns, are computed as the code computes them.       *)

Scalar == [kind |-> "Int64"]
List(inner) == [kind |-> "List", inner |-> inner]
Struct(fields_) == [kind |-> "Struct", fields |-> fields_]

\* a column of a schema, or a field of a struct
Column(name, dtype) == [name |-> name, dtype |-> dtype]

\* Python's `word in text` for str
Contains(text, word) ==
    \E i \in 0..(Len(text) - Len(word)) : SubSeq(text, i + 1, i + Len(word)) = word

\* schema[name]
TypeOf(sch, name) == sch[CHOOSE i \in DOMAIN sch : sch[i].name = name].dtype

\* a name occurs twice among the columns
Duplicated(frame) ==
    \E i, j \in DOMAIN frame : i # j /\ frame[i].name = frame[j].name

\* transform.py:30-33: the columns get_expandable looks at; columns None and
\* [] take the same branch, and are both the empty sequence here
Scoped(sch, cols) ==
    LET all == [i \in DOMAIN sch |-> sch[i].name]
    IN  IF cols # <<>>
        THEN SelectSeq(all, LAMBDA col : \E i \in DOMAIN cols : Contains(col, cols[i]))
        ELSE all

get_expandable_structs(mode, sch, cols) ==
    [structs |-> IF Contains(Chars[mode], Chars["unnest"])
                 THEN SelectSeq(Scoped(sch, cols),
                                LAMBDA name : TypeOf(sch, name).kind = "Struct")
                 ELSE <<>>,
     lists |-> <<>>]

get_expandable_any(mode, sch, cols) ==
    [structs |-> SelectSeq(Scoped(sch, cols), LAMBDA name : TypeOf(sch, name).kind = "Struct"),
     lists |-> SelectSeq(Scoped(sch, cols), LAMBDA name : TypeOf(sch, name).kind = "List")]

\* get_expandable (transform.py:26-46)
get_expandable(mode, sch, cols) ==
    LET scoped == Scoped(sch, cols)
    IN  [structs |-> IF Contains(Chars[mode], Chars["unnest"])
                     THEN SelectSeq(scoped, LAMBDA name : TypeOf(sch, name).kind = "Struct")
                     ELSE <<>>,
         lists |-> IF Contains(Chars[mode], Chars["explode"])
                   THEN SelectSeq(scoped, LAMBDA name : TypeOf(sch, name).kind = "List")
                   ELSE <<>>]

\* LazyFrame.explode(columns): each named list column becomes a column of
\* its elements, in place
explode(frame, names) ==
    [i \in DOMAIN frame |->
        IF frame[i].name \in Range(names)
        THEN Column(frame[i].name, frame[i].dtype.inner)
        ELSE frame[i]]

\* Expr.struct.rename_fields(names)
rename_fields(dtype, names) ==
    Struct([j \in DOMAIN dtype.fields |-> Column(names[j], dtype.fields[j].dtype)])

\* LazyFrame.unnest(columns): each named struct column is replaced, in place,
\* by one column for each of its fields
RECURSIVE unnest(_, _)
unnest(frame, names) ==
    IF frame = <<>> THEN <<>>
    ELSE (IF Head(frame).name \in Range(names)
          THEN Head(frame).dtype.fields
          ELSE <<Head(frame)>>) \o unnest(Tail(frame), names)

\* unnest_rename (transform.py:49-63)
unnest_rename(frame, cols, sch, separator) ==
    LET named(column) ==
            [j \in DOMAIN TypeOf(sch, column).fields |->
                column \o separator \o TypeOf(sch, column).fields[j].name]
    IN  unnest([i \in DOMAIN frame |->
                   IF frame[i].name \in Range(cols)
                   THEN Column(frame[i].name,
                               rename_fields(frame[i].dtype, named(frame[i].name)))
                   ELSE frame[i]],
               cols)

----------------------------------------------------------------------------
(* The datasets, modes and column restrictions normalize is tried with *)

\* deepest nesting of a column type tried
MaxDepth == 3

\* the types nested at most d deep: a list of any of them one less deep, a
\* struct whose field b is any of them one less deep, and the structs of no
\* field and of two
RECURSIVE Types(_)
Types(d) ==
    IF d = 0 THEN {Scalar}
    ELSE LET inner == Types(d - 1)
         IN  {Scalar, Struct(<<>>),
              Struct(<<Column(Chars["b"], Scalar), Column(Chars["c"], Scalar)>>)}
             \cup {List(t) : t \in inner}
             \cup {Struct(<<Column(Chars["b"], t)>>) : t \in inner}

\* a column a of any type, alone or followed by a column whose name is part
\* of a's, holds a's, or is the name unnest_rename gives a's field b
NestedFrames ==
    {<<Column(Chars["a"], t)>> : t \in Types(MaxDepth)}
    \cup {<<Column(Chars["a"], p[1]), Column(Chars[p[2]], p[3])>> :
             p \in Types(MaxDepth) \X {"b", "ab", "a.b"} \X Types(1)}

\* NORM_LITS (transform.py:8-10), the default of normalize's how, and None
Modes == {NONE, "explode", "unnest", "unnest-explode", "unnest-first",
          "explode-first", "explode-unnest"}

Restrictions == {<<>>, <<Chars["a"]>>, <<Chars["b"]>>}

\* what normalize() leaves alone
rest == <<fields, lf_schema, n, max_iterations, exprs, examined, before,
          applied, failed, running, earlier, declared, classes, heap>>

InitNormalize ==
    /\ fields = <<>>
    /\ running = [c \in Calls |-> IdleCall]
    /\ earlier = "none"
    /\ declared = <<>>
    /\ classes = <<>>
    /\ pc = "idle"
    /\ ldf = <<>>
    /\ lf_schema = {}
    /\ n = 0
    /\ max_iterations = ITER_MAX
    /\ exprs = <<>>
    /\ examined = <<>>
    /\ before = {}
    /\ input = <<>>
    /\ applied = 0
    /\ failed = <<>>
    /\ Unshaped
    /\ Unallocated

\* transform.py:73-77: no mode, the dataset is returned; else the schema is
\* collected and the columns to expand are looked up
Normalize(data, cols, mode) ==
    /\ pc = "idle"
    /\ input' = data
    /\ ldf' = data
    /\ how' = mode
    /\ expand_columns' = cols
    /\ passes' = <<>>
    /\ IF mode = NONE
       THEN /\ pc' = "returned"
            /\ UNCHANGED <<schema, structs, lists>>
       ELSE LET found == get_expandable(mode, data, cols)
            IN  /\ pc' = "while"
                /\ schema' = data
                /\ structs' = found.structs
                /\ lists' = found.lists
    /\ UNCHANGED rest

\* main.py:48-50: no test of the mode: `'unnest' in None` is a TypeError
NormalizeMain(data, cols, mode) ==
    /\ pc = "idle"
    /\ input' = data
    /\ ldf' = data
    /\ how' = mode
    /\ expand_columns' = cols
    /\ passes' = <<>>
    /\ IF mode = NONE
       THEN /\ pc' = "TypeError"
            /\ UNCHANGED <<schema, structs, lists>>
       ELSE LET found == get_expandable(mode, data, cols)
            IN  /\ pc' = "while"
                /\ schema' = data
                /\ structs' = found.structs
                /\ lists' = found.lists
    /\ UNCHANGED rest

\* the schema of columns of which two have one name, where polars resolves
\* it without complaint: a mapping, in which a name has the place of its
\* first column and the type of its last
Merged(frame) == Update(<<>>, frame)

\* transform.py:85-89 after an expansion has made the dataset `frame`: a
\* first mode leaves the loop; else the schema is collected and the columns
\* to expand are looked up again.  A dataset of which two columns have one
\* name fails with polars' DuplicateError: when its schema is collected, or,
\* the schema resolved as a mapping, only when the dataset is.
Expanded(frame, op, on) ==
    /\ passes' = Append(passes, [op |-> op, on |-> on, structs |-> structs,
                                 lists |-> lists, from |-> ldf, to |-> frame])
    /\ IF Contains(Chars[how], Chars["first"])
       THEN /\ pc' = "returned"
            /\ ldf' = frame
            /\ UNCHANGED <<schema, structs, lists>>
       ELSE \/ /\ Duplicated(frame)
               /\ pc' = "DuplicateError"
               /\ ldf' = frame
               /\ UNCHANGED <<schema, structs, lists>>
            \/ \E found \in {get_expandable(how, Merged(frame), expand_columns)} :
                   /\ pc' = "while"
                   /\ ldf' = Merged(frame)
                   /\ schema' = ldf'
                   /\ structs' = found.structs
                   /\ lists' = found.lists
    /\ UNCHANGED <<input, how, expand_columns, rest>>

\* transform.py:79-81: an iteration with list columns to expand
Explode ==
    /\ pc = "while"
    /\ lists # <<>>
    /\ \E frame \in {explode(ldf, lists)} : Expanded(frame, "explode", lists)

UnnestAnyway ==
    /\ pc = "while"
    /\ structs # <<>>
    /\ \E frame \in {unnest_rename(ldf, structs, schema, Chars["."])} :
           Expanded(frame, "unnest", structs)

\* transform.py:79-83: an iteration with struct columns and no list column
Unnest ==
    /\ pc = "while"
    /\ lists = <<>>
    /\ structs # <<>>
    /\ \E frame \in {unnest_rename(ldf, structs, schema, Chars["."])} :
           Expanded(frame, "unnest", structs)

\* transform.py:79, 91: nothing is left to expand
Leave ==
    /\ pc = "while"
    /\ structs = <<>>
    /\ lists = <<>>
    /\ pc' = "returned"
    /\ UNCHANGED <<ldf, input, shape, rest>>

NextNormalize ==
    \/ /\ pc = "idle"
       /\ \E data \in NestedFrames, cols \in Restrictions, mode \in Modes :
              Normalize(data, cols, mode)
    \/ /\ pc = "idle"
       /\ \E data \in NestedFrames, cols \in Restrictions, mode \in Modes :
              NormalizeMain(data, cols, mode)
    \/ Explode
    \/ Unnest
    \/ Leave

SpecNormalize == InitNormalize /\ [][NextNormalize]_vars

\* a call of normalize is not left halfway
SpecNormalizeFair == SpecNormalize /\ WF_vars(Explode \/ Unnest \/ Leave)

----------------------------------------------------------------------------
(* C22 *)

\* the modes that both unnest and explode until nothing is left
Repeating == {"unnest-explode", "explode-unnest"}

\* the column is one normalize is to expand: any column when the call names
\* none, else one whose name holds one of the names the call gives
InScope(name) ==
    \/ expand_columns = <<>>
    \/ \E i \in DOMAIN expand_columns : Contains(name, expand_columns[i])

Nested(dtype) == dtype.kind \in {"Struct", "List"}

\* C22: a call of normalize in unnest-explode mode, on a dataset whose types
\* are nested finitely deep, comes to its end; and the dataset it returns
\* has no struct or list column among the columns in scope.
C22_UnnestExplodeTerminates ==
    /\ (pc = "while" /\ how \in Repeating) ~> (pc \in {"returned", "DuplicateError"})
    /\ [](pc = "returned" /\ how \in Repeating =>
             \A i \in DOMAIN ldf : InScope(ldf[i].name) => ~Nested(ldf[i].dtype))

\* a call in unnest-explode mode has returned after three expansions, its
\* dataset having had a column nested three deep
C22_Witness ==
    /\ pc = "returned"
    /\ how = "unnest-explode"
    /\ Len(passes) >= MaxDepth
    /\ \E i, j \in DOMAIN passes : passes[i].op = "explode" /\ passes[j].op = "unnest"
    /\ \E i \in DOMAIN input : Nested(input[i].dtype) /\ ~InScope(input[i].name)

----------------------------------------------------------------------------
(* C23 *)

\* the dataset with the columns at the given places expanded by one level:
\* a list column holds its elements, a struct column gives way to one column
\* for each field, named parent.child
RECURSIVE OneLevel(_, _, _)
OneLevel(frame, targets, i) ==
    IF i > Len(frame) THEN <<>>
    ELSE (IF i \notin targets THEN <<frame[i]>>
          ELSE IF frame[i].dtype.kind = "List"
          THEN <<Column(frame[i].name, frame[i].dtype.inner)>>
          ELSE [j \in DOMAIN frame[i].dtype.fields |->
                   Column(frame[i].name \o Chars["."] \o frame[i].dtype.fields[j].name,
                          frame[i].dtype.fields[j].dtype)])
         \o OneLevel(frame, targets, i + 1)

\* the places of the in-scope columns of the given kind in the dataset given
Targets(kind) ==
    {i \in DOMAIN input : InScope(input[i].name) /\ input[i].dtype.kind = kind}

\* C23: a call in unnest-first or explode-first mode applies at most one
\* expansion, one when the dataset has an in-scope column of the mode's kind,
\* and returns: explode-first explodes every in-scope list column and unnests
\* nothing, unnest-first unnests every in-scope struct column and explodes
\* nothing, and the result is the dataset given with just those columns
\* expanded by one level, whatever is still nested in it.
C23_FirstModesOnePass ==
    (how \in {"unnest-first", "explode-first"} /\ pc \in {"while", "returned"}) =>
        LET kind == IF how = "unnest-first" THEN "Struct" ELSE "List"
            op == IF how = "unnest-first" THEN "unnest" ELSE "explode"
        IN  /\ Len(passes) <= 1
            /\ pc = "while" => passes = <<>>
            /\ pc = "returned" =>
                   /\ Len(passes) = IF Targets(kind) = {} THEN 0 ELSE 1
                   /\ \A k \in DOMAIN passes :
                          /\ passes[k].op = op
                          /\ Range(passes[k].on) = {input[i].name : i \in Targets(kind)}
                   /\ ldf = OneLevel(input, Targets(kind), 1)

\* a call in unnest-first mode has returned after unnesting one struct
\* column; its result has a struct column and a list column in scope
C23_Witness ==
    /\ pc = "returned"
    /\ how = "unnest-first"
    /\ Len(passes) = 1
    /\ \E i, j \in DOMAIN ldf :
           /\ InScope(ldf[i].name) /\ ldf[i].dtype.kind = "Struct"
           /\ InScope(ldf[j].name) /\ ldf[j].dtype.kind = "List"

----------------------------------------------------------------------------
(* C24 *)

\* the kinds of column a mode expands
Expands(mode) ==
    CASE mode \in {"unnest", "unnest-first"} -> {"Struct"}
      [] mode \in {"explode", "explode-first"} -> {"List"}
      [] mode \in Repeating -> {"Struct", "List"}
      [] OTHER -> {}

\* the column of the dataset given is one the call is to expand
Target(col) == InScope(col.name) /\ col.dtype.kind \in Expands(how)

\* C24: a call of normalize of transform.py does not fail, and its result is
\* a dataset that can be collected; every column of the dataset given that
\* is not an in-scope struct or list column of the mode is in the result
\* with its name and type; and with no such in-scope column, or no mode, the
\* result is the dataset given, nothing applied to it.
C24_NormalizeFrame ==
    /\ pc # "DuplicateError"
    /\ pc = "returned" =>
           /\ ~Duplicated(ldf)
           /\ \A k \in DOMAIN passes : ~Duplicated(passes[k].to)
           /\ \A i \in DOMAIN input :
                  ~Target(input[i]) => \E j \in DOMAIN ldf : ldf[j] = input[i]
           /\ (how = NONE \/ \A i \in DOMAIN input : ~Target(input[i])) =>
                  ldf = input /\ passes = <<>>

----------------------------------------------------------------------------
(* C29 *)

\* the places of the in-scope columns of the given kind in a dataset
Places(frame, kind) ==
    {i \in DOMAIN frame : InScope(frame[i].name) /\ frame[i].dtype.kind = kind}

\* C29: in unnest-explode mode, an iteration that starts with an in-scope
\* list column explodes the in-scope list columns and nothing else, no struct
\* column unnested; an iteration unnests only when it starts with no in-scope
\* list column, and then unnests the in-scope struct columns.
C29_ExplodeBeforeUnnest ==
    how \in Repeating =>
        /\ \A k \in DOMAIN passes :
               LET from == passes[k].from
               IN  /\ Places(from, "List") # {} =>
                          /\ passes[k].op = "explode"
                          /\ passes[k].to = OneLevel(from, Places(from, "List"), 1)
                   /\ passes[k].op = "unnest" =>
                          /\ Places(from, "List") = {}
                          /\ passes[k].to = OneLevel(from, Places(from, "Struct"), 1)
        /\ pc = "while" =>
               Range(lists) = {ldf[i].name : i \in Places(ldf, "List")}

\* a call in unnest-explode mode that began by exploding a dataset that had
\* an in-scope struct column as well, and unnested afterwards
C29_Witness ==
    /\ how = "unnest-explode"
    /\ Len(passes) >= 2
    /\ passes[1].op = "explode"
    /\ Places(passes[1].from, "Struct") # {}
    /\ \E k \in DOMAIN passes : passes[k].op = "unnest"

----------------------------------------------------------------------------
(* append (transform.py:122-131) and _Model.append (model.py:86-94).  A      *)
(* dataset is here its schema, the columns in order with their types, and   *)
(* the number of its rows.                                                   *)

Text == [kind |-> "String"]

Table(cols, rows) == [schema |-> cols, rows |-> rows]

names(sch) == {sch[i].name : i \in DOMAIN sch}

\* polars' supertype of two column types: the type itself, String for an
\* integer and a string, none for a struct and a scalar
NoType == [kind |-> "none"]
supertype(t, u) ==
    IF t = u THEN t
    ELSE IF {t, u} = {Scalar, Text} THEN Text
    ELSE NoType

\* lf.with_columns([pl.lit(None).cast(typed.get(col)).alias(col) for col in
\* all_columns if col not in current.names()]).select(all_columns), the set
\* all_columns iterated in the given order
padded(current, typed, order) ==
    [k \in DOMAIN order |->
        IF order[k] \in names(current)
        THEN Column(order[k], TypeOf(current, order[k]))
        ELSE Column(order[k], TypeOf(typed, order[k]))]

\* pl.concat([lf1, lf2]) (how="vertical"): the frames must have the same
\* columns, in the same order and of the same types
concat(lf1, lf2) ==
    IF lf1.schema = lf2.schema
    THEN [raised |-> FALSE, lf |-> Table(lf1.schema, lf1.rows + lf2.rows)]
    ELSE [raised |-> TRUE, lf |-> lf1]

\* the columns of a diagonal concatenation from the k-th of the second frame
\* on: a column of a new name is added at the end, a column of a name already
\* there takes the supertype
RECURSIVE Diagonal(_, _, _)
Diagonal(sch, more, k) ==
    IF k > Len(more) THEN sch
    ELSE IF more[k].name \in names(sch)
    THEN Diagonal([i \in DOMAIN sch |->
                      IF sch[i].name = more[k].name
                      THEN Column(sch[i].name, supertype(sch[i].dtype, more[k].dtype))
                      ELSE sch[i]],
                  more, k + 1)
    ELSE Diagonal(Append(sch, more[k]), more, k + 1)

\* pl.concat([lf1, lf2], how="diagonal_relaxed"): fails when two columns of
\* one name have no supertype
concat_diagonal_relaxed(lf1, lf2) ==
    LET sch == Diagonal(lf1.schema, lf2.schema, 1)
    IN  IF \E i \in DOMAIN sch : sch[i].dtype = NoType
        THEN [raised |-> TRUE, lf |-> lf1]
        ELSE [raised |-> FALSE, lf |-> Table(sch, lf1.rows + lf2.rows)]

\* append (transform.py:122-131), all_columns iterated in the given order
append(lf, other, order) ==
    LET other_schema == other.schema
        current_schema == lf.schema
        lf1 == Table(padded(current_schema, other_schema, order), lf.rows)
        lf2 == Table(padded(other_schema, current_schema, order), other.rows)
    IN  concat(lf1, lf2)

----------------------------------------------------------------------------
(* The datasets appended *)

\* most rows of a dataset
MaxRows == 2

\* schemas of up to two columns x and y, an integer, a string or a struct
Schemas ==
    LET types == {Scalar, Text, Struct(<<>>)}
        one == {<<Column(c[1], c[2])>> : c \in {"x", "y"} \X types}
    IN  {<<>>} \cup one
        \cup {p[1] \o p[2] : p \in {q \in one \X one : q[1][1].name # q[2][1].name}}

\* a dataset without columns has no rows
Tables ==
    {Table(p[1], p[2]) : p \in {q \in Schemas \X (0..MaxRows) : q[1] = <<>> => q[2] = 0}}

InitAppend ==
    /\ fields = <<>>
    /\ running = [c \in Calls |-> IdleCall]
    /\ earlier = "none"
    /\ declared = <<>>
    /\ classes = <<>>
    /\ pc = "idle"
    /\ ldf = Table(<<>>, 0)
    /\ lf_schema = {}
    /\ n = 0
    /\ max_iterations = ITER_MAX
    /\ exprs = <<>>
    /\ examined = <<>>
    /\ before = {}
    /\ input = <<>>
    /\ applied = 0
    /\ failed = <<>>
    /\ Unshaped
    /\ Unallocated

\* append(lf, other) of transform.py: the dataset it returns, or the
\* SchemaError with which that dataset fails
Reconcile(lf, other) ==
    /\ pc = "idle"
    /\ \E order \in Orders(names(lf.schema) \cup names(other.schema)) :
           \E made \in {append(lf, other, order)} :
               /\ pc' = IF made.raised THEN "SchemaError" ELSE "appended"
               /\ ldf' = made.lf
    /\ input' = <<lf, other>>
    /\ UNCHANGED <<rest, shape>>

\* _Model.append(other) of model.py with a LazyFrame: self.lf after it, or
\* the SchemaError with which it fails
ModelAppend(lf, other) ==
    /\ pc = "idle"
    /\ \E made \in {concat_diagonal_relaxed(lf, other)} :
           /\ pc' = IF made.raised THEN "SchemaError" ELSE "appended"
           /\ ldf' = made.lf
    /\ input' = <<lf, other>>
    /\ UNCHANGED <<rest, shape>>

NextAppend ==
    \/ /\ pc = "idle"
       /\ \E lf \in Tables, other \in Tables : Reconcile(lf, other)
    \/ /\ pc = "idle"
       /\ \E lf \in Tables, other \in Tables : ModelAppend(lf, other)

SpecAppend == InitAppend /\ [][NextAppend]_vars

----------------------------------------------------------------------------
(* C25 *)

\* C25: reconciling any two datasets succeeds, and the result has each
\* column name of either dataset exactly once and no other, and as many rows
\* as the two datasets together.
C25_ReconcileComplete ==
    pc \in {"appended", "SchemaError"} =>
        /\ pc = "appended"
        /\ names(ldf.schema) = names(input[1].schema) \cup names(input[2].schema)
        /\ ~Duplicated(ldf.schema)
        /\ ldf.rows = input[1].rows + input[2].rows

----------------------------------------------------------------------------
(* C26 *)

\* some expression of the Field has all its roots among the names
Satisfiable(col, schema_) == \E k \in DOMAIN col.exprs : Satisfied(col.exprs[k], schema_)

\* C26: a Field that is not derived when an iteration begins and has an
\* expression whose roots are all in the schema as it stands then is in that
\* iteration's batch and derived by it; so for the Fields a (from x), b (from
\* a) and c (from a column never there, default "none"), the dataset having
\* the column x, and a cap of two or more: the first iteration selects just
\* a, the second just b, the third nothing and ends the loop, and the result
\* has the columns a, b, c, with c its default literal.
C26_EagerResolution ==
    /\ (pc \in {"loop", "literals"} /\ examined # <<>>) =>
           \A i \in DOMAIN fields :
               LET seen == \E j \in DOMAIN examined : examined[j].name = fields[i].name
               IN  /\ (seen /\ Satisfiable(fields[i], before)) =>
                          fields[i].name \in BatchNames /\ fields[i].derived
                   /\ fields[i].name \in BatchNames => seen
    /\ (ResetDerived(fields) = Example /\ input = {"x"} /\ max_iterations >= 2) =>
           /\ (pc = "loop" /\ n = 1) => BatchNames = {"a"}
           /\ (pc = "loop" /\ n = 2) => BatchNames = {"b"}
           /\ pc = "loop" => n <= 2
           /\ pc = "literals" => n = 2 /\ exprs = <<>> /\ applied = 2
           /\ pc = "returned" =>
                  /\ ldf.names = <<"a", "b", "c">>
                  /\ ldf.col["a"] = ExprCol(Example[1], 1, 0)
                  /\ ldf.col["b"] = ExprCol(Example[2], 1, 1)
                  /\ ldf.col["c"] = Literal(Example[3])
                  /\ ldf.col["c"].value = "none"

\* the call on the three Fields and the column x has returned
C26_Witness ==
    /\ pc = "returned"
    /\ ResetDerived(fields) = Example
    /\ input = {"x"}
    /\ applied = 2
    /\ ldf.col["c"].kind = "lit"

----------------------------------------------------------------------------
(* C27 *)

\* C27: through every step of a running call, no name leaves the schema, a
\* Field that is derived stays derived, a batch holds no Field that was
\* derived before the iteration, and a column computed from an expression is
\* left as that expression made it: each Field is computed at most once.
C27_ResolvedOnce ==
    [][(pc \in {"loop", "literals"}) =>
          (/\ lf_schema \subseteq lf_schema'
           /\ DOMAIN fields' = DOMAIN fields
           /\ \A i \in DOMAIN fields : fields[i].derived => fields'[i].derived
           /\ n' # n => \A j \in DOMAIN exprs' : ~FieldNamed(exprs'[j].name).derived
           /\ \A c \in Range(ldf.names) :
                  ldf.col[c].kind = "expr" =>
                      (c \in Range(ldf'.names) /\ ldf'.col[c] = ldf.col[c]))]_vars

\* a Field was derived in the first iteration from its second expression;
\* its first expression has all its roots in the schema only since a later
\* iteration, and the call has returned the column as first computed
C27_Witness ==
    /\ pc = "returned"
    /\ \E i \in DOMAIN fields :
          /\ Len(fields[i].exprs) = 2
          /\ ldf.col[fields[i].name] = ExprCol(fields[i], 2, 0)
          /\ ~Satisfied(fields[i].exprs[1], input)
          /\ Satisfied(fields[i].exprs[1], lf_schema)

----------------------------------------------------------------------------
(* C28 *)

Least(i, j) == IF i <= j THEN i ELSE j

\* the iterations the loop may take: one for each Field or for each value of
\* n up to the cap, whichever is less, and the one that ends it
MostIterations == Least(Len(fields), max_iterations + 1) + 1

\* C28: every call comes to its end: an iteration either ends the loop, by
\* break or by the RuntimeError, or derives at least one Field that was not
\* derived, of which there are finitely many; the loop has ended when it has
\* begun min(number of Fields, max_iterations + 1) + 1 iterations (n counts
\* the iterations before the one begun last); after a break the call
\* returns, and a call that has returned or raised is over.
C28_TransformTerminates ==
    [][(/\ pc = "loop" =>
             /\ n + 1 <= MostIterations
             /\ \/ pc' \in {"literals", "raised"} /\ n' = n
                \/ /\ pc' = "loop"
                   /\ n' = n + 1
                   /\ Len(Underived(fields')) < Len(Underived(fields))
                   /\ \A i \in DOMAIN fields : fields[i].derived => fields'[i].derived
        /\ pc = "literals" => pc' = "returned"
        /\ pc \in {"returned", "raised"} => pc' = "idle")]_vars

\* a call on Fields that each need the one before has ended with the error
\* in the last iteration the bound allows, Fields still not derived
C28_Witness ==
    /\ pc = "raised"
    /\ n + 1 = MostIterations
    /\ Len(fields) > max_iterations + 1
    /\ failed # <<>>

----------------------------------------------------------------------------
(* C30 *)

\* the name is a column only a default gives: not in the dataset the call
\* was given, and the column of a Field that was not derived
OnlyByDefault(name) ==
    /\ name \notin input
    /\ \E j \in DOMAIN fields : fields[j].name = name /\ ~fields[j].derived

\* every expression of the Field reads some column only a default gives
NeedsDefault(col) ==
    \A k \in DOMAIN col.exprs : \E r \in col.exprs[k].roots : OnlyByDefault(r)

\* C30: no get_expr call is given a schema with a name that is neither a
\* column of the dataset given nor a Field derived from an expression; while
\* the loop runs the dataset holds no default literal, and the literals are
\* all there when the call has returned; so a Field whose every expression
\* reads a column that only another Field's default gives holds its own
\* default literal in the result.
C30_DefaultsUnseen ==
    /\ \A k \in DOMAIN examined : \A name \in examined[k].saw :
           \/ name \in input
           \/ \E j \in DOMAIN fields : fields[j].name = name /\ fields[j].derived
    /\ pc \in {"loop", "literals"} =>
           \A c \in Range(ldf.names) : ldf.col[c].kind # "lit"
    /\ pc = "returned" =>
           \A i \in DOMAIN fields :
               /\ ~fields[i].derived => ldf.col[fields[i].name] = Literal(fields[i])
               /\ NeedsDefault(fields[i]) =>
                      /\ ~fields[i].derived
                      /\ ldf.col[fields[i].name] = Literal(fields[i])

\* a call on a dataset with a column has returned: one Field holds its
\* default, "none", and another, whose only expression reads that Field's
\* column, holds its own default
C30_Witness ==
    /\ pc = "returned"
    /\ input # {}
    /\ \E i, j \in DOMAIN fields :
          /\ i # j
          /\ fields[j].default = "none"
          /\ ldf.col[fields[j].name] = Literal(fields[j])
          /\ Len(fields[i].exprs) = 1
          /\ fields[i].exprs[1].roots = {fields[j].name}
          /\ fields[j].name \notin input
          /\ ldf.col[fields[i].name] = Literal(fields[i])

----------------------------------------------------------------------------
(* Model instances: __add__, __copy__ and append of _Model (model.py:66-94). *)
(* An instance is its class and the lf of its __dict__; the Field list is   *)
(* the attribute `fields` of the class, which every instance of it shares.  *)

\* most instances there are at a time
MaxObjects == 3

\* an instance of the Model class M holding the dataset
Instance(lf) == [class |-> "M", lf |-> lf]

\* the operands tried: a Model instance, a LazyFrame, and data that is
\* neither, given as the frame pl.LazyFrame(data) makes of it
ModelOperand(o) == [kind |-> "Model", id |-> o]
FrameOperand(lf) == [kind |-> "LazyFrame", lf |-> lf]
DataOperand(lf) == [kind |-> "data", lf |-> lf]

\* the datasets the instances begin with and the frames and data given: one
\* row of one column, x an integer or a struct or y an integer
Frames ==
    {t \in Tables : /\ Len(t.schema) = 1
                    /\ t.rows = 1
                    /\ t.schema[1].dtype # Text
                    /\ t.schema[1].name = "y" => t.schema[1].dtype = Scalar}

Operands ==
    {ModelOperand(o) : o \in 1..MaxObjects}
    \cup {FrameOperand(lf) : lf \in Frames}
    \cup {DataOperand(lf) : lf \in {t \in Frames : t.schema[1].name = "y"}}

\* a dataset can be collected: none of its columns lacks a type
Collects(lf) == \A i \in DOMAIN lf.schema : lf.schema[i].dtype # NoType

\* what pl.concat([lf1, lf2], how="diagonal_relaxed") does when a column has
\* no supertype: it raises at once, or it returns a frame that raises when
\* it is collected
made_diagonal_relaxed(lf1, lf2) ==
    LET made == concat_diagonal_relaxed(lf1, lf2)
    IN  IF made.raised
        THEN {made,
              [raised |-> FALSE,
               lf |-> Table(Diagonal(lf1.schema, lf2.schema, 1), lf1.rows + lf2.rows)]}
        ELSE {made}

\* _Model.__init__ (model.py:45-61) of the class with data: expand is None
\* in the class, so normalize returns the frame as it is
Constructed(data) == Instance(data)

\* _Model.append (model.py:86-94) on the instance self of the heap: the
\* heaps it may leave, or that it raised
appends(objs, self, other) ==
    LET other_lf == IF other.kind = "Model" THEN objs[other.id].lf
                    ELSE IF other.kind = "LazyFrame" THEN other.lf
                    ELSE Constructed(other.lf).lf
    IN  {[raised |-> made.raised,
          objects |-> IF made.raised THEN objs
                      ELSE [objs EXCEPT ![self].lf = made.lf]] :
            made \in made_diagonal_relaxed(objs[self].lf, other_lf)}

\* _Model.__copy__ (model.py:73-76): the heap with a new instance of the
\* class of self that has the __dict__ of self
copy(objs, self) == Append(objs, [class |-> objs[self].class, lf |-> objs[self].lf])

\* what neither __add__ nor append writes
unwritten == <<ldf, lf_schema, n, max_iterations, exprs, examined, before,
               input, applied, failed, running, earlier, declared, classes, shape>>

InitAdd ==
    /\ fields = Example
    /\ running = [c \in Calls |-> IdleCall]
    /\ earlier = "none"
    /\ declared = <<>>
    /\ classes = <<>>
    /\ pc = "idle"
    /\ ldf = Table(<<>>, 0)
    /\ lf_schema = {}
    /\ n = 0
    /\ max_iterations = ITER_MAX
    /\ exprs = <<>>
    /\ examined = <<>>
    /\ before = {}
    /\ input = <<>>
    /\ applied = 0
    /\ failed = <<>>
    /\ Unshaped
    /\ objects \in [1..2 -> {Constructed(lf) : lf \in Frames}]
    /\ returned = [kind |-> "None"]

\* self + other: _Model.__add__ (model.py:66-71)
Add(self, other) ==
    /\ IF other.kind = "Model"
       THEN \E did \in appends(copy(objects, self), Len(objects) + 1,
                               FrameOperand(objects[other.id].lf)) :
                IF did.raised
                THEN /\ pc' = "SchemaError"
                     /\ UNCHANGED heap
                ELSE /\ pc' = "returned"
                     /\ objects' = did.objects
                     /\ returned' = ModelOperand(Len(objects) + 1)
       ELSE /\ pc' = "returned"
            /\ returned' = [kind |-> "NotImplemented"]
            /\ UNCHANGED objects
    /\ UNCHANGED <<fields, unwritten>>

\* self.append(other): _Model.append (model.py:86-94)
ModelAppends(self, other) ==
    /\ \E did \in appends(objects, self, other) :
           /\ pc' = IF did.raised THEN "SchemaError" ELSE "returned"
           /\ objects' = did.objects
    /\ returned' = [kind |-> "None"]
    /\ UNCHANGED <<fields, unwritten>>

\* the rows of the operand
rows_of(other) == IF other.kind = "Model" THEN objects[other.id].lf.rows ELSE other.lf.rows

\* the calls tried: on instances there are, with datasets of up to
\* MaxRows rows, and no more than MaxObjects instances
NextAdd ==
    \/ \E self \in DOMAIN objects, other \in Operands :
           /\ other.kind = "Model" =>
                  /\ other.id \in DOMAIN objects
                  /\ Len(objects) < MaxObjects
                  /\ objects[self].lf.rows + rows_of(other) <= MaxRows
           /\ Add(self, other)
    \/ \E self \in DOMAIN objects, other \in Operands :
           /\ other.kind = "Model" => other.id \in DOMAIN objects
           /\ objects[self].lf.rows + rows_of(other) <= MaxRows
           /\ ModelAppends(self, other)

SpecAdd == InitAdd /\ [][NextAdd]_vars

----------------------------------------------------------------------------
(* C31 *)

\* the dataset is the concatenation of the two: every column name of either
\* exactly once, as many rows as the two together, and it can be collected
\* when the two can
Concatenation(lf, lf1, lf2) ==
    /\ names(lf.schema) = names(lf1.schema) \cup names(lf2.schema)
    /\ ~Duplicated(lf.schema)
    /\ lf.rows = lf1.rows + lf2.rows
    /\ (Collects(lf1) /\ Collects(lf2)) => Collects(lf)

\* the step is a call that leaves the Field list of the class and every
\* instance there was as it was, but for the one named
Kept(receiver) ==
    /\ fields' = fields
    /\ \A o \in DOMAIN objects \ receiver : objects'[o] = objects[o]

\* self + other returns a new instance of the class of self holding the
\* concatenation when other is a Model, and NotImplemented, with the
\* instances as they were, when it is not
SumReturned(self, other) ==
    IF other.kind = "Model"
    THEN /\ pc' = "returned"
         /\ returned'.kind = "Model"
         /\ returned'.id \in DOMAIN objects' \ DOMAIN objects
         /\ objects'[returned'.id].class = objects[self].class
         /\ Concatenation(objects'[returned'.id].lf,
                          objects[self].lf, objects[other.id].lf)
    ELSE /\ returned' = [kind |-> "NotImplemented"]
         /\ objects' = objects

\* the operand is one there is
Given(other) == other.kind = "Model" => other.id \in DOMAIN objects

====
